---- MODULE Spec2Model ----
(***************************************************************************)
(* The Stellar "exact" payment scheme of x402: the facilitator's verify    *)
(* and settle operations, with the ledger client (simulate, getAccount,    *)
(* sendTransaction, getTransaction) and the signer as the environment.     *)
(*                                                                         *)
(* The repository carries two texts of verify:                             *)
(*   verify         facilitator/settle.ts 534-650: verify(signer, payload, *)
(*                  requirements, config), the one verify.test.ts calls;   *)
(*   verify_server  facilitator/verify.ts 51-161: verify(server, payload,  *)
(*                  requirements), the signature settle() calls.           *)
(* settle() calls `verify(server, payload, paymentRequirements)`; which    *)
(* text answers that call depends on the build, so SettleCall chooses.     *)
(***************************************************************************)
EXTENDS Integers, Sequences, FiniteSets, TLC

\* ------------------------------------------------------------------ values

\* JavaScript's undefined: an absent optional field, an absent property.
Undefined == "undefined"

\* Accounts (G... addresses) and token contracts (C... addresses).
ClientA     == "G_CLIENT_A"
ClientB     == "G_CLIENT_B"
Facilitator == "G_FACILITATOR"
Recipient   == "G_RECIPIENT"
AssetX      == "C_ASSET_X"
AssetZ      == "C_ASSET_Z"

\* ------------------------------------------------------------------ bounds

\* Longest authorization-entry list of a client operation.
MaxAuth == 2
\* Largest maxTimeoutSeconds a requirements object carries.
MaxTimeout == 2

\* The most runs of the auditor on one input.
MaxRuns == 2

\* --------------------------------------------------------- program constants

DEFAULT_TIMEOUT_SECONDS == 60

SupportedStellarNetworks == {"stellar", "stellar-testnet"}

\* ------------------------------------------------------------- the signer

\* The facilitator's Ed25519Signer: {address, signAuthEntry, signTransaction}.
FacilitatorSigner == [address |-> Facilitator]

\* An rpc.Server object: it has no `address` property.
RpcServer == [address |-> Undefined]

\* ------------------------------------------------------------- rpc helpers

\* getRpcUrl: the custom URL or the testnet default; throws for mainnet
\* without a custom URL and for any other network. A config is the record of
\* its config?.stellarConfig?.rpcUrl, undefined when any link is absent.
getRpcUrlThrows(network, cfg) ==
    LET customRpcUrl == cfg.rpcUrl
    IN  CASE network = "stellar-testnet" -> FALSE
          [] network = "stellar"         -> customRpcUrl = Undefined
          [] OTHER                       -> TRUE

\* getRpcClient throws exactly when getRpcUrl does.
getRpcClientThrows(network, cfg) == getRpcUrlThrows(network, cfg)

\* getNetworkPassphrase throws for a network without a passphrase.
getNetworkPassphraseThrows(network) ==
    network \notin {"stellar", "stellar-testnet"}

\* ------------------------------------------------------------- responses

invalidResponse(reason, payer) ==
    [isValid |-> FALSE, invalidReason |-> reason, payer |-> payer]

\* Mutant: the valid response loses its payer.
validResponse_noPayer(payer) ==
    [isValid |-> TRUE, invalidReason |-> Undefined, payer |-> Undefined]

validResponse(payer) ==
    [isValid |-> TRUE, invalidReason |-> Undefined, payer |-> payer]

successResponse(txHash, network, payer) ==
    [success |-> TRUE, errorReason |-> Undefined, transaction |-> txHash,
     network |-> network, payer |-> payer]

\* txHash defaults to "" when the argument is absent or undefined.
errorResponse(reason, network, payer, txHash) ==
    [success |-> FALSE, errorReason |-> reason,
     transaction |-> IF txHash = Undefined THEN "" ELSE txHash,
     network |-> network, payer |-> payer]

\* ------------------------------------------------------------ optionals

\* An optional number is a sequence of at most one element.
Absent == <<>>
Some(x) == <<x>>

\* JavaScript's `opt ?? dflt`.
NullishOr(opt, dflt) == IF opt = Absent THEN dflt ELSE opt[1]

\* ------------------------------------------------------ decimal strings

\* A string is the sequence of its characters. BigInt(s) reads a string of
\* decimal digits (the empty string is 0n) and throws a SyntaxError for a
\* string like "1.5"; signs, blanks and 0x/0o/0b prefixes are left out.
DigitValue(c) ==
    CASE c = "0" -> 0 [] c = "1" -> 1 [] c = "2" -> 2 [] c = "3" -> 3
      [] c = "4" -> 4 [] c = "5" -> 5 [] c = "6" -> 6 [] c = "7" -> 7
      [] c = "8" -> 8 [] c = "9" -> 9 [] OTHER -> -1

BigIntThrows(s) == \E k \in 1..Len(s) : DigitValue(s[k]) < 0

RECURSIVE BigInt(_)
BigInt(s) ==
    IF s = <<>> THEN 0
    ELSE 10 * BigInt(SubSeq(s, 1, Len(s) - 1)) + DigitValue(s[Len(s)])

\* ------------------------------------------------------------ transactions

\* ScVal arguments and scValToNative.
ScvAddress(a) == [type |-> "scvAddress", value |-> a]
ScvI128(n)    == [type |-> "scvI128", value |-> n]
scValToNative(v) == v.value

\* Soroban authorization entries: source-account credentials carry no
\* address and no signature; address credentials carry both, the signature
\* being scvVoid until the address has signed.
SourceAccountEntry ==
    [credentials |-> "sorobanCredentialsSourceAccount",
     address |-> Undefined, signature |-> Undefined]
AddressEntry(a, sig) ==
    [credentials |-> "sorobanCredentialsAddress", address |-> a, signature |-> sig]

\* Host functions.
InvokeContract(contract, fname, args) ==
    [kind |-> "hostFunctionTypeInvokeContract", contractAddress |-> contract,
     functionName |-> fname, args |-> args]
CreateContract ==
    [kind |-> "hostFunctionTypeCreateContract", contractAddress |-> Undefined,
     functionName |-> Undefined, args |-> <<>>]

\* Operations: `source` is undefined unless the operation overrides it.
InvokeHostFunctionOp(src, func, auth) ==
    [type |-> "invokeHostFunction", source |-> src, func |-> func, auth |-> auth]
\* Any other operation type has no host function.
NoFunc ==
    [kind |-> Undefined, contractAddress |-> Undefined,
     functionName |-> Undefined, args |-> <<>>]
PaymentOp ==
    [type |-> "payment", source |-> Undefined, func |-> NoFunc, auth |-> <<>>]

\* Time bounds; a maxTime of 0 sets no limit.
TimeBounds(minTime, maxTime) == [minTime |-> minTime, maxTime |-> maxTime]

\* Date.now() in seconds, as setTimeout reads it when settle rebuilds. Whether
\* the new time bounds equal the client's depends only on how far the client's
\* lie from this reading, and the inputs vary the client's.
Now == 1000

\* TransactionBuilder.setTimeout(seconds) on a builder without time bounds:
\* no lower bound, and an upper bound that many seconds from now; 0 seconds
\* (TimeoutInfinite) sets no upper bound.
setTimeout(now, timeoutSeconds) ==
    TimeBounds(0, IF timeoutSeconds = 0 THEN 0 ELSE now + timeoutSeconds)

\* The fields of an envelope beside its source, operations and Soroban data,
\* as a transaction has them when its builder was given the fee only: no
\* ledger bounds, no memo, no minimum-sequence constraints, no extra signers.
\* Optional fields are sequences of at most one element.
PlainEnvelope ==
    [fee |-> "100", timeBounds |-> TimeBounds(0, 0), ledgerBounds |-> <<>>,
     memo |-> "none", minAccountSequence |-> <<>>, minAccountSequenceAge |-> 0,
     minAccountSequenceLedgerGap |-> 0, extraSigners |-> <<>>]

\* A decoded transaction envelope.
Tx(src, ops, soroban) ==
    [source |-> src, operations |-> ops, sorobanData |-> soroban,
     fee |-> PlainEnvelope.fee, timeBounds |-> PlainEnvelope.timeBounds,
     ledgerBounds |-> PlainEnvelope.ledgerBounds, memo |-> PlainEnvelope.memo,
     minAccountSequence |-> PlainEnvelope.minAccountSequence,
     minAccountSequenceAge |-> PlainEnvelope.minAccountSequenceAge,
     minAccountSequenceLedgerGap |-> PlainEnvelope.minAccountSequenceLedgerGap,
     extraSigners |-> PlainEnvelope.extraSigners]

\* The transaction `tx` with the envelope fields of `envelope`.
WithEnvelope(tx, envelope) ==
    [field \in DOMAIN tx |->
        IF field \in DOMAIN envelope THEN envelope[field] ELSE tx[field]]

\* payload.payload: no transaction text, a text that is no envelope, or the
\* base64 XDR of an envelope (kept decoded).
NoTx == Tx(Undefined, <<>>, FALSE)
MissingText == [kind |-> "missing", tx |-> NoTx]
GarbageText == [kind |-> "garbage", tx |-> NoTx]
XdrText(tx) == [kind |-> "xdr", tx |-> tx]

\* ExactStellarPayloadSchema.parse throws unless payload.payload carries a
\* transaction string.
ExactStellarPayloadSchemaThrows(inner) == inner.kind = "missing"

\* new Transaction(text, passphrase) throws unless the text is an envelope.
TransactionThrows(inner) == inner.kind # "xdr"

\* -------------------------------------------------------------- simulation

\* What server.simulateTransaction does: it raises, or it returns an error
\* response, a restore response (a success response with a restorePreamble)
\* or a plain success response; the last two carry result.auth, the entries
\* the simulation recorded.
SimThrow == [kind |-> "throw", auth |-> <<>>]
SimError == [kind |-> "error", auth |-> <<>>]
SimRestore(auth) == [kind |-> "restore", auth |-> auth]
SimSuccess(auth) == [kind |-> "success", auth |-> auth]

\* Mutant: no response counts as a simulation error.
isSimulationError_never(sim) == FALSE

isSimulationError(sim) == sim.kind = "error"

\* assembleTransaction(raw, simulation): the same operation, keeping its
\* authorization entries when it has any and taking the simulation's otherwise.
assembleTransaction(raw, simulation) ==
    LET invokeOp == raw.operations[1]
        existingAuth == invokeOp.auth
    IN  [raw EXCEPT !.operations =
            <<[invokeOp EXCEPT !.auth =
                IF Len(existingAuth) > 0 THEN existingAuth ELSE simulation.auth]>>]

\* ------------------------------------------------------ AuthEntryAuditor

\* Mutant: the lists are returned as they were collected.
RemoveDuplicates_keepAll(list) == list

\* [...new Set(list)]: the first occurrence of every element, in order.
RECURSIVE RemoveDuplicates(_)
RemoveDuplicates(list) ==
    IF list = <<>> THEN <<>>
    ELSE LET front == RemoveDuplicates(SubSeq(list, 1, Len(list) - 1))
             last  == list[Len(list)]
         IN  IF \E k \in 1..Len(front) : front[k] = last
             THEN front ELSE Append(front, last)

\* Mutant: source-account entries are not skipped, and count for the address
\* and the signature they do not have.
RECURSIVE SignersOf_anyCredentials(_, _)
SignersOf_anyCredentials(auth, signed) ==
    IF auth = <<>> THEN <<>>
    ELSE LET rest  == SignersOf_anyCredentials(SubSeq(auth, 1, Len(auth) - 1), signed)
             entry == auth[Len(auth)]
         IN  IF (entry.signature # "scvVoid") = signed
             THEN Append(rest, entry.address)
             ELSE rest

\* The addresses of the address-credential entries whose signature is (signed)
\* or is not (pending) set, in list order; source-account entries are skipped.
RECURSIVE SignersOf(_, _)
SignersOf(auth, signed) ==
    IF auth = <<>> THEN <<>>
    ELSE LET rest  == SignersOf(SubSeq(auth, 1, Len(auth) - 1), signed)
             entry == auth[Len(auth)]
         IN  IF entry.credentials = "sorobanCredentialsSourceAccount" THEN rest
             ELSE IF entry.credentials = "sorobanCredentialsAddress"
                     /\ (entry.signature # "scvVoid") = signed
                  THEN Append(rest, entry.address)
                  ELSE rest

\* The input of the auditor: the transaction, and the optional simulation
\* response and `simulate` flag.
GatherAuthEntrySignatureStatusInput(transaction, simulationResponse, simulate) ==
    [transaction |-> transaction, simulationResponse |-> simulationResponse,
     simulate |-> simulate]

\* `simulate ?? simulationResponse !== undefined`, and a response to assemble with.
shouldAssemble(input) ==
    /\ NullishOr(input.simulate, input.simulationResponse # Absent)
    /\ input.simulationResponse # Absent

\* The transaction is not one of exactly one invokeHostFunction operation
\* (assembleTransaction raises for such a transaction as well).
unexpectedOperations(tx) ==
    \/ Len(tx.operations) # 1
    \/ tx.operations[1].type # "invokeHostFunction"

\* gatherAuthEntrySignatureStatus({transaction, simulationResponse, simulate}):
\* the transaction is assembled with the simulation response when there is one
\* and `simulate` does not forbid it; the authorization entries of the single
\* invocation are classified.
gatherAuthEntrySignatureStatus(input) ==
    LET threw == unexpectedOperations(input.transaction)
        assembledTx ==
            IF shouldAssemble(input) /\ ~threw
            THEN assembleTransaction(input.transaction, input.simulationResponse[1])
            ELSE input.transaction
        auth == IF threw THEN <<>> ELSE assembledTx.operations[1].auth
    IN  [threw |-> threw,
         alreadySigned |-> RemoveDuplicates(SignersOf(auth, TRUE)),
         pendingSignature |-> RemoveDuplicates(SignersOf(auth, FALSE))]

\* Mutant: the transaction handed in is the one assembled.
transactionAfterGather_assembled(input) ==
    IF shouldAssemble(input) /\ ~unexpectedOperations(input.transaction)
    THEN assembleTransaction(input.transaction, input.simulationResponse[1])
    ELSE input.transaction

\* The transaction handed in, as the auditor leaves it: assembling builds a
\* new transaction (`let assembledTx = transaction; assembledTx = ....build()`)
\* and the loop only reads.
transactionAfterGather(input) == input.transaction

includes(list, x) == \E k \in 1..Len(list) : list[k] = x

\* ------------------------------------------------------------------ verify

\* How a stretch of verify ends: it returns a response, it raises, or it goes
\* on (to the simulation) with the decoded `from`.
Return(resp) == [kind |-> "return", resp |-> resp, fromAddress |-> Undefined]
Throw == [kind |-> "throw", resp |-> invalidResponse(Undefined, Undefined),
          fromAddress |-> Undefined]
GoOn(from) == [kind |-> "goon", resp |-> invalidResponse(Undefined, Undefined),
               fromAddress |-> from]

\* Mutant: any contract passes for the asset.
wrongAsset_never(func, paymentRequirements) == FALSE

\* The four comparisons of steps 5 and 6.
wrongAsset(func, paymentRequirements) ==
    func.contractAddress # paymentRequirements.asset

wrongFunction(func) ==
    func.functionName # "transfer" \/ Len(func.args) # 3

\* Mutant: any recipient passes.
wrongRecipient_never(toAddress, paymentRequirements) == FALSE

wrongRecipient(toAddress, paymentRequirements) ==
    toAddress # paymentRequirements.payTo

\* Mutant: an under-payment passes the amount check.
wrongAmount_overpaidOnly(amount, paymentRequirements) ==
    amount > BigInt(paymentRequirements.maxAmountRequired)

\* Mutant: an over-payment passes the amount check.
wrongAmount_underpaidOnly(amount, paymentRequirements) ==
    amount < BigInt(paymentRequirements.maxAmountRequired)

wrongAmount(amount, paymentRequirements) ==
    amount # BigInt(paymentRequirements.maxAmountRequired)

\* Steps 3 to 6 of verify: the structure of the transaction, then asset,
\* function, recipient and amount against the requirements.
validateTransaction(transaction, paymentRequirements) ==
    IF Len(transaction.operations) # 1
    THEN Return(invalidResponse("invalid_exact_stellar_payload_wrong_operation", Undefined))
    ELSE
    LET operation == transaction.operations[1]
        func == operation.func
        args == func.args
    IN  IF operation.type # "invokeHostFunction"
        THEN Return(invalidResponse("invalid_exact_stellar_payload_wrong_operation", Undefined))
        ELSE IF func.kind # "hostFunctionTypeInvokeContract"
        THEN Return(invalidResponse("invalid_exact_stellar_payload_wrong_operation", Undefined))
        ELSE IF wrongAsset(func, paymentRequirements)
        THEN Return(invalidResponse("invalid_exact_stellar_payload_wrong_asset", Undefined))
        ELSE IF wrongFunction(func)
        THEN Return(invalidResponse("invalid_exact_stellar_payload_wrong_function_name", Undefined))
        ELSE IF Len(args) # 3
        THEN Return(invalidResponse("invalid_exact_stellar_payload_wrong_function_args", Undefined))
        ELSE
        LET fromAddress == scValToNative(args[1])
            toAddress   == scValToNative(args[2])
            amount      == scValToNative(args[3])
        IN  IF wrongRecipient(toAddress, paymentRequirements)
            THEN Return(invalidResponse("invalid_exact_stellar_payload_wrong_recipient", fromAddress))
            ELSE IF BigIntThrows(paymentRequirements.maxAmountRequired)
            THEN Throw
            ELSE IF wrongAmount(amount, paymentRequirements)
            THEN Return(invalidResponse("invalid_exact_stellar_payload_wrong_amount", fromAddress))
            ELSE GoOn(fromAddress)

\* Steps 1 and 2 of both texts of verify: version, scheme, network.
validateProtocol(payload, paymentRequirements) ==
    IF payload.x402Version # 1 THEN Return(invalidResponse("invalid_x402_version", Undefined))
    ELSE IF payload.scheme # "exact" THEN Return(invalidResponse("invalid_scheme", Undefined))
    ELSE IF \/ payload.network # paymentRequirements.network
            \/ paymentRequirements.network \notin SupportedStellarNetworks
    THEN Return(invalidResponse("invalid_network", Undefined))
    ELSE GoOn(Undefined)

\* Decoding: the schema parse (raises), then the envelope parse (malformed).
decodeTransaction(payload, paymentRequirements) ==
    IF ExactStellarPayloadSchemaThrows(payload.payload) THEN Throw
    ELSE IF getNetworkPassphraseThrows(paymentRequirements.network) THEN Throw
    ELSE IF TransactionThrows(payload.payload)
    THEN Return(invalidResponse("invalid_exact_stellar_payload_malformed", Undefined))
    ELSE GoOn(Undefined)

\* Mutant: verify has no catch.
verifyCatch_rethrow(outcome) == outcome

\* An exception inside verify's try block becomes unexpected_verify_error.
verifyCatch(outcome) ==
    IF outcome.kind = "throw"
    THEN Return(invalidResponse("unexpected_verify_error", Undefined))
    ELSE outcome

\* verify(signer, payload, paymentRequirements, config) up to its await of
\* simulateTransaction.
verifyBeforeSimulation(payload, paymentRequirements, cfg) ==
    LET protocol == validateProtocol(payload, paymentRequirements)
        decoded  == decodeTransaction(payload, paymentRequirements)
    IN  verifyCatch(
            IF protocol.kind # "goon" THEN protocol
            ELSE IF getRpcClientThrows(paymentRequirements.network, cfg) THEN Throw
            ELSE IF decoded.kind # "goon" THEN decoded
            ELSE validateTransaction(payload.payload.tx, paymentRequirements))

\* The operation or the transaction names the first argument's address as
\* its source.
unsafeSource(signer, transaction) ==
    \/ transaction.operations[1].source = signer.address
    \/ transaction.source = signer.address

\* Mutant: the payer's signature is not asked for.
auditSigners_pendingOnly(authStatus, fromAddress) ==
    IF Len(authStatus.pendingSignature) > 0
    THEN invalidResponse("invalid_exact_stellar_payload_unexpected_pending_signatures", fromAddress)
    ELSE validResponse(fromAddress)

\* Mutant: the pending signatures are looked at before the payer's.
auditSigners_pendingFirst(authStatus, fromAddress) ==
    IF Len(authStatus.pendingSignature) > 0
    THEN invalidResponse("invalid_exact_stellar_payload_unexpected_pending_signatures", fromAddress)
    ELSE IF ~includes(authStatus.alreadySigned, fromAddress)
    THEN invalidResponse("invalid_exact_stellar_payload_missing_payer_signature", fromAddress)
    ELSE validResponse(fromAddress)

\* Steps 8 on: the payer has signed, and nobody else has yet to.
auditSigners(authStatus, fromAddress) ==
    IF ~includes(authStatus.alreadySigned, fromAddress)
    THEN invalidResponse("invalid_exact_stellar_payload_missing_payer_signature", fromAddress)
    ELSE IF Len(authStatus.pendingSignature) > 0
    THEN invalidResponse("invalid_exact_stellar_payload_unexpected_pending_signatures", fromAddress)
    ELSE validResponse(fromAddress)

\* verify(signer, ...) from the return of simulateTransaction on.
verifyAfterSimulation(signer, transaction, fromAddress, simulateResponse) ==
    LET authStatus == gatherAuthEntrySignatureStatus(
            GatherAuthEntrySignatureStatusInput(transaction, Some(simulateResponse), Absent))
    IN  verifyCatch(
            IF simulateResponse.kind = "throw" THEN Throw
            ELSE IF isSimulationError(simulateResponse)
            THEN Return(invalidResponse("invalid_exact_stellar_payload_simulation_failed",
                                        fromAddress))
            ELSE IF authStatus.threw THEN Throw
            ELSE IF unsafeSource(signer, transaction)
            THEN Return(invalidResponse("invalid_exact_stellar_payload_unsafe_tx_or_op_source",
                                        fromAddress))
            ELSE Return(auditSigners(authStatus, fromAddress)))

\* verify(server, payload, paymentRequirements) of verify.ts up to its await.
verify_serverBeforeSimulation(payload, paymentRequirements) ==
    LET protocol == validateProtocol(payload, paymentRequirements)
        decoded  == decodeTransaction(payload, paymentRequirements)
    IN  verifyCatch(
            IF protocol.kind # "goon" THEN protocol
            ELSE IF decoded.kind # "goon" THEN decoded
            ELSE validateTransaction(payload.payload.tx, paymentRequirements))

\* verify(server, ...) of verify.ts from the return of simulateTransaction on:
\* it has no source check.
verify_serverAfterSimulation(transaction, fromAddress, simulateResponse) ==
    LET authStatus == gatherAuthEntrySignatureStatus(
            GatherAuthEntrySignatureStatusInput(transaction, Some(simulateResponse), Absent))
    IN  verifyCatch(
            IF simulateResponse.kind = "throw" THEN Throw
            ELSE IF isSimulationError(simulateResponse)
            THEN Return(invalidResponse("invalid_exact_stellar_payload_simulation_failed",
                                        fromAddress))
            ELSE IF authStatus.threw THEN Throw
            ELSE Return(auditSigners(authStatus, fromAddress)))

\* ------------------------------------------------------------------ inputs

Networks == {"stellar-testnet", "stellar", "base-sepolia"}

\* X402Config: config?.stellarConfig?.rpcUrl is a URL or undefined.
NoConfig == [rpcUrl |-> Undefined]
CustomConfig == [rpcUrl |-> "https://rpc.example.com"]

AmountStrings ==
    { <<"9", "9">>, <<"1", "0", "0">>, <<"0", "1", "0", "0">>,
      <<"1", "0", "1">>, <<"1", ".", "5">> }

Timeouts == {Absent} \cup {Some(n) : n \in 0..MaxTimeout}

AuthEntries ==
    {SourceAccountEntry}
    \cup {AddressEntry(a, sig) : a \in {ClientA, ClientB}, sig \in {"scvVoid", "scvVec"}}
AuthLists == UNION {[1..n -> AuthEntries] : n \in 0..MaxAuth}

\* The arguments of a token call: (from, to, amount), one short or one over.
ArgLists(from) ==
    { <<ScvAddress(from), ScvAddress(Recipient)>>,
      <<ScvAddress(from), ScvAddress(Recipient), ScvI128(100)>>,
      <<ScvAddress(from), ScvAddress(Recipient), ScvI128(100), ScvI128(0)>> }

\* A transaction with the one operation `op`, or with a payment after it.
TransferTx(from, txSource, opSource, auth, soroban) ==
    Tx(txSource,
       <<InvokeHostFunctionOp(opSource,
            InvokeContract(AssetX, "transfer",
                <<ScvAddress(from), ScvAddress(Recipient), ScvI128(100)>>),
            auth)>>,
       soroban)

\* What createAndSignPayment builds for `from`: the client is the transaction
\* source, the operation has no source of its own, and the only authorization
\* entry is the client's, signed.
ClientTx(from) ==
    TransferTx(from, from, Undefined, <<AddressEntry(from, "scvVec")>>, TRUE)

\* Transactions that are no single contract invocation.
OddTxs ==
    { Tx(ClientA, <<>>, TRUE),
      Tx(ClientA, <<PaymentOp>>, TRUE),
      Tx(ClientA, <<InvokeHostFunctionOp(Undefined, CreateContract, <<>>)>>, TRUE),
      Tx(ClientA, ClientTx(ClientA).operations \o <<PaymentOp>>, TRUE) }

\* Calls of some function of some contract, signed by the caller.
CallTxs ==
    { Tx(from,
         <<InvokeHostFunctionOp(Undefined, InvokeContract(contract, fname, args),
                                <<AddressEntry(from, "scvVec")>>)>>,
         TRUE) :
      from \in {ClientA, ClientB}, contract \in {AssetX, AssetZ},
      fname \in {"transfer", "approve"}, args \in ArgLists(ClientA) \cup ArgLists(ClientB) }

\* Transfers of 100 to Recipient under every source and authorization list.
TransferTxs ==
    { TransferTx(from, txSource, opSource, auth, soroban) :
      from \in {ClientA, ClientB}, txSource \in {ClientA, Facilitator},
      opSource \in {Undefined, ClientB, Facilitator},
      auth \in AuthLists, soroban \in BOOLEAN }

Payload(version, scheme, network, inner) ==
    [x402Version |-> version, scheme |-> scheme, network |-> network, payload |-> inner]

Requirements(network, asset, payTo, amount, timeout) ==
    [scheme |-> "exact", network |-> network, asset |-> asset, payTo |-> payTo,
     maxAmountRequired |-> amount, maxTimeoutSeconds |-> timeout]

Input(p, r, c) == [payload |-> p, paymentRequirements |-> r, config |-> c]

\* Every envelope, network and configuration, over a few transactions.
EnvelopeInputs ==
    { Input(Payload(version, scheme, pnet, inner),
            Requirements(rnet, asset, Recipient, <<"1", "0", "0">>, Some(1)), c) :
      version \in {1, 2}, scheme \in {"exact", "upto"}, pnet \in Networks,
      rnet \in Networks, asset \in {AssetX, AssetZ}, c \in {NoConfig, CustomConfig},
      inner \in {MissingText, GarbageText, XdrText(ClientTx(ClientA)),
                 XdrText(Tx(ClientA, <<PaymentOp>>, TRUE))} }

\* Every shape of transaction against every asset, recipient and amount.
StructureInputs ==
    { Input(Payload(1, "exact", "stellar-testnet", XdrText(tx)),
            Requirements("stellar-testnet", asset, payTo, amount, Some(1)), NoConfig) :
      tx \in OddTxs \cup CallTxs, asset \in {AssetX, AssetZ},
      payTo \in {Recipient, ClientB}, amount \in AmountStrings }

\* Every source and authorization list against every asset, recipient, amount.
AuditInputs ==
    { Input(Payload(1, "exact", "stellar-testnet", XdrText(tx)),
            Requirements("stellar-testnet", asset, payTo, amount, Some(1)), NoConfig) :
      tx \in TransferTxs, asset \in {AssetX, AssetZ},
      payTo \in {Recipient, ClientB}, amount \in AmountStrings }

\* Every poll budget over the transfers that can be settled.
SettlementInputs ==
    { Input(Payload(1, "exact", network, XdrText(tx)),
            Requirements(network, AssetX, Recipient, <<"1", "0", "0">>, timeout),
            CustomConfig) :
      network \in SupportedStellarNetworks, timeout \in Timeouts \ {Absent},
      tx \in { TransferTx(ClientA, txSource, opSource, <<AddressEntry(ClientA, "scvVec")>>, soroban) :
               txSource \in {ClientA, Facilitator},
               opSource \in {Undefined, ClientB, Facilitator}, soroban \in BOOLEAN } }

\* The client's payment under requirements without maxTimeoutSeconds.
DefaultBudgetInputs ==
    { Input(Payload(1, "exact", "stellar-testnet", XdrText(ClientTx(ClientA))),
            Requirements("stellar-testnet", AssetX, Recipient, <<"1", "0", "0">>, Absent),
            c) : c \in {NoConfig, CustomConfig} }

\* Envelope fields a client may set: time bounds that end one second or five
\* minutes after the facilitator's clock reading, and an envelope with every
\* field set.
ClientEnvelopes ==
    { PlainEnvelope,
      [PlainEnvelope EXCEPT !.timeBounds = TimeBounds(0, Now + 1)],
      [PlainEnvelope EXCEPT !.timeBounds = TimeBounds(0, Now + 300)],
      [fee |-> "250", timeBounds |-> TimeBounds(Now - 10, Now + 2),
       ledgerBounds |-> <<[minLedger |-> 0, maxLedger |-> 500]>>,
       memo |-> "text:order-7", minAccountSequence |-> <<"5">>,
       minAccountSequenceAge |-> 1, minAccountSequenceLedgerGap |-> 1,
       extraSigners |-> <<"G_EXTRA_SIGNER">>] }

\* The client's payment under every envelope and every poll budget.
RebuildInputs ==
    { Input(Payload(1, "exact", "stellar-testnet",
                    XdrText(WithEnvelope(ClientTx(ClientA), envelope))),
            Requirements("stellar-testnet", AssetX, Recipient, <<"1", "0", "0">>, timeout),
            CustomConfig) :
      envelope \in ClientEnvelopes, timeout \in Timeouts \ {Absent} }

Inputs ==
    EnvelopeInputs \cup StructureInputs \cup AuditInputs \cup SettlementInputs
    \cup DefaultBudgetInputs \cup RebuildInputs

\* ------------------------------------------------------------------- state

VARIABLES
    payload,              \* the PaymentPayload of the call
    paymentRequirements,  \* the PaymentRequirements of the call
    config,               \* the X402Config of the call
    api,                  \* "none", or the operation called: "verify", "settle"
    pc,                   \* where the call stands
    text,                 \* the text of verify that runs: "verify", "verify_server"
    fromAddress,          \* verify's local: the decoded `from`
    simulation,           \* what simulateTransaction did, if it was called
    verifyResult,         \* the VerifyResponse verify returned, if any
    settleResult,         \* the SettleResponse settle returned, if any
    thrown,               \* an exception left the called operation
    payer,                \* settle's local
    txHash,               \* settle's local
    i,                    \* pollForTransaction's loop counter
    rebuiltTx,            \* settle's rebuilt transaction, if built
    sendResult,           \* what sendTransaction returned, if it did
    lastStatus,           \* what the last getTransaction returned, or "throw"
    pollErrors,           \* how many getTransaction invocations raised
    calls,                \* how often each capability was invoked
    signError,            \* settle's local: what signTransaction reported, if it returned
    raised,               \* "none", or the capability whose exception settle caught
    facilitatorAccount,   \* settle's local: the account getAccount returned, if it did
    settles,              \* concurrent calls of settle: each call's locals
    ledger,               \* concurrent calls of settle: the ledger they share
    auditor,              \* gatherAuthEntrySignatureStatus run on its own: input, runs
    client                \* createAndSignPayment: the call's locals

vars == <<payload, paymentRequirements, config, api, pc, text, fromAddress,
          simulation, verifyResult, settleResult, thrown, payer, txHash, i,
          rebuiltTx, sendResult, lastStatus, pollErrors, calls, signError, raised,
          facilitatorAccount, settles, ledger, auditor, client>>

\* The state of the calls that run side by side, untouched by a call alone.
concurrent == <<settles, ledger>>

\* The state of a call alone, untouched by the calls that run side by side.
alone == <<payload, paymentRequirements, config, api, pc, text, fromAddress,
           simulation, verifyResult, settleResult, thrown, payer, txHash, i,
           rebuiltTx, sendResult, lastStatus, pollErrors, calls, signError, raised,
           facilitatorAccount>>

\* The state of the auditor run on its own and of the client, untouched by the
\* facilitator's calls.
elsewhere == <<auditor, client>>

inputs == <<payload, paymentRequirements, config>>

NoCalls == [simulateTransaction |-> 0, getAccount |-> 0, signTransaction |-> 0,
            sendTransaction |-> 0, getTransaction |-> 0]

Called(name) == calls' = [calls EXCEPT ![name] = @ + 1]

Init ==
    /\ \E in \in Inputs :
        /\ payload = in.payload
        /\ paymentRequirements = in.paymentRequirements
        /\ config = in.config
    /\ api = "none"
    /\ pc = "idle"
    /\ text = "none"
    /\ fromAddress = Undefined
    /\ simulation = <<>>
    /\ verifyResult = <<>>
    /\ settleResult = <<>>
    /\ thrown = FALSE
    /\ payer = Undefined
    /\ txHash = Undefined
    /\ i = 0
    /\ rebuiltTx = <<>>
    /\ sendResult = <<>>
    /\ lastStatus = "none"
    /\ pollErrors = 0
    /\ calls = NoCalls
    /\ signError = <<>>
    /\ raised = "none"
    /\ facilitatorAccount = <<>>
    /\ settles = <<>>
    /\ ledger = <<>>
    /\ auditor = <<>>
    /\ client = <<>>

\* The facilitator's operations are not called: the state of a call alone
\* stays at its start.
NotCalled ==
    /\ payload = Payload(1, "exact", "stellar-testnet", MissingText)
    /\ paymentRequirements =
            Requirements("stellar-testnet", AssetX, Recipient, <<"1", "0", "0">>, Absent)
    /\ config = NoConfig
    /\ api = "none"
    /\ pc = "idle"
    /\ text = "none"
    /\ fromAddress = Undefined
    /\ simulation = <<>>
    /\ verifyResult = <<>>
    /\ settleResult = <<>>
    /\ thrown = FALSE
    /\ payer = Undefined
    /\ txHash = Undefined
    /\ i = 0
    /\ rebuiltTx = <<>>
    /\ sendResult = <<>>
    /\ lastStatus = "none"
    /\ pollErrors = 0
    /\ calls = NoCalls
    /\ signError = <<>>
    /\ raised = "none"
    /\ facilitatorAccount = <<>>

\* -------------------------------------------------------- verify, called

\* The simulation responses of the ledger.
SimulateResponses ==
    {SimThrow, SimError}
    \cup {SimRestore(auth) : auth \in {<<>>, <<SourceAccountEntry>>}}
    \cup {SimSuccess(auth) : auth \in
            {<<>>, <<SourceAccountEntry>>,
             <<AddressEntry(ClientA, "scvVoid")>>, <<AddressEntry(ClientB, "scvVoid")>>}}

\* The texts of verify: the one after settle's, verify(signer, payload,
\* paymentRequirements, config), and the one of verify.ts, verify(server,
\* payload, paymentRequirements).
VerifyTexts == {"verify", "verify_server"}

\* verify called by the facilitator, in either text, up to its return or its
\* await of the simulation.
VerifyCall ==
    /\ pc = "idle"
    /\ api' = "verify"
    /\ \E t \in VerifyTexts :
        LET before ==
                IF t = "verify"
                THEN verifyBeforeSimulation(payload, paymentRequirements, config)
                ELSE verify_serverBeforeSimulation(payload, paymentRequirements)
        IN  /\ text' = t
            /\ CASE before.kind = "return" ->
                        /\ verifyResult' = <<before.resp>>
                        /\ pc' = "done"
                        /\ UNCHANGED <<fromAddress, thrown, calls>>
                 [] before.kind = "throw" ->
                        /\ thrown' = TRUE
                        /\ pc' = "done"
                        /\ UNCHANGED <<fromAddress, verifyResult, calls>>
                 [] OTHER ->
                        /\ fromAddress' = before.fromAddress
                        /\ pc' = "verify_simulate"
                        /\ Called("simulateTransaction")
                        /\ UNCHANGED <<verifyResult, thrown>>
    /\ UNCHANGED <<inputs, simulation, settleResult, payer, txHash, i, rebuiltTx,
                   sendResult, lastStatus, pollErrors, signError, raised,
                   facilitatorAccount, concurrent, elsewhere>>

\* The simulation answers, and verify runs to its return.
VerifySimulateReturn ==
    /\ pc = "verify_simulate"
    /\ \E simulateResponse \in SimulateResponses :
        LET after ==
                IF text = "verify"
                THEN verifyAfterSimulation(FacilitatorSigner, payload.payload.tx,
                                           fromAddress, simulateResponse)
                ELSE verify_serverAfterSimulation(payload.payload.tx,
                                                  fromAddress, simulateResponse)
        IN  /\ simulation' = <<simulateResponse>>
            /\ IF after.kind = "return"
               THEN verifyResult' = <<after.resp>> /\ UNCHANGED thrown
               ELSE thrown' = TRUE /\ UNCHANGED verifyResult
    /\ pc' = "done"
    /\ UNCHANGED <<inputs, api, text, fromAddress, settleResult, payer,
                   txHash, i, rebuiltTx, sendResult, lastStatus, pollErrors, calls,
                   signError, raised, facilitatorAccount, concurrent, elsewhere>>

\* -------------------------------------------------------- settle, called

Hashes == {"hash-1", "hash-2"}
SendStatuses == {"PENDING", "DUPLICATE", "TRY_AGAIN_LATER", "ERROR"}
AccountSequences == {100, 101}

\* Mutant: the catch block answers without the payer.
SettleCatch_withoutPayer ==
    /\ settleResult' = <<errorResponse("unexpected_settle_error", payload.network,
                                       Undefined, txHash)>>
    /\ pc' = "done"

\* An exception inside settle's try block.
SettleCatch ==
    /\ settleResult' = <<errorResponse("unexpected_settle_error", payload.network,
                                       payer, txHash)>>
    /\ pc' = "done"

\* Mutant: settle goes on whatever verify answered.
verifyFailed_never(verifyResponse) == FALSE

verifyFailed(verifyResponse) == ~verifyResponse.isValid

\* Mutant: the Soroban data is not looked for.
missingSorobanData_never(transaction) == FALSE

missingSorobanData(transaction) == ~transaction.sorobanData

\* Step 1 of settle, once verify has answered, and step 2: an invalid result
\* is returned as it is; a valid one without Soroban data is malformed;
\* otherwise the facilitator's account is fetched.
SettleAfterVerify(verifyResponse) ==
    /\ verifyResult' = <<verifyResponse>>
    /\ IF verifyFailed(verifyResponse)
       THEN /\ settleResult' = <<errorResponse(verifyResponse.invalidReason,
                                    payload.network, verifyResponse.payer, Undefined)>>
            /\ pc' = "done"
            /\ UNCHANGED <<payer, calls>>
       ELSE /\ payer' = verifyResponse.payer
            /\ IF missingSorobanData(payload.payload.tx)
               THEN /\ settleResult' = <<errorResponse("invalid_exact_stellar_payload_malformed",
                                            payload.network, verifyResponse.payer, Undefined)>>
                    /\ pc' = "done"
                    /\ UNCHANGED calls
               ELSE /\ pc' = "settle_getAccount"
                    /\ Called("getAccount")
                    /\ UNCHANGED settleResult

\* settle(signer, payload, paymentRequirements, config): the RPC client and
\* the passphrase are obtained before the try block, then verify is called
\* with the RPC client as its first argument and without the config.
SettleCall ==
    /\ pc = "idle"
    /\ api' = "settle"
    /\ IF \/ getRpcClientThrows(paymentRequirements.network, config)
          \/ getNetworkPassphraseThrows(paymentRequirements.network)
       THEN /\ thrown' = TRUE
            /\ pc' = "done"
            /\ UNCHANGED <<text, fromAddress, verifyResult, settleResult, payer, calls>>
       ELSE /\ UNCHANGED thrown
            /\ \E t \in VerifyTexts :
                LET before ==
                        IF t = "verify"
                        THEN verifyBeforeSimulation(payload, paymentRequirements, NoConfig)
                        ELSE verify_serverBeforeSimulation(payload, paymentRequirements)
                IN  /\ text' = t
                    /\ CASE before.kind = "return" ->
                                /\ SettleAfterVerify(before.resp)
                                /\ UNCHANGED fromAddress
                         [] before.kind = "throw" ->
                                /\ SettleCatch
                                /\ UNCHANGED <<fromAddress, verifyResult, payer, calls>>
                         [] OTHER ->
                                /\ fromAddress' = before.fromAddress
                                /\ pc' = "settle_simulate"
                                /\ Called("simulateTransaction")
                                /\ UNCHANGED <<verifyResult, settleResult, payer>>
    /\ UNCHANGED <<inputs, simulation, txHash, i, rebuiltTx, sendResult, lastStatus,
                   pollErrors, signError, raised, facilitatorAccount, concurrent, elsewhere>>

\* The simulation answers inside settle's call of verify, and settle goes on.
SettleSimulateReturn ==
    /\ pc = "settle_simulate"
    /\ \E simulateResponse \in SimulateResponses :
        LET after ==
                IF text = "verify"
                THEN verifyAfterSimulation(RpcServer, payload.payload.tx,
                                           fromAddress, simulateResponse)
                ELSE verify_serverAfterSimulation(payload.payload.tx,
                                                  fromAddress, simulateResponse)
        IN  /\ simulation' = <<simulateResponse>>
            /\ IF after.kind = "return"
               THEN SettleAfterVerify(after.resp)
               ELSE SettleCatch /\ UNCHANGED <<verifyResult, payer, calls>>
    /\ UNCHANGED <<inputs, api, text, fromAddress, thrown, txHash, i, rebuiltTx,
                   sendResult, lastStatus, pollErrors, signError, raised,
                   facilitatorAccount, concurrent, elsewhere>>

\* new Account(accountId, sequence), as getAccount returns it.
Account(accountId, sequence) == [accountId |-> accountId, sequence |-> sequence]

\* Mutant: the rebuilt operation is given no source of its own.
RebuiltTransaction_withoutOperationSource(account, transaction, requirements) ==
    LET invokeOp == transaction.operations[1]
    IN  [source |-> account.accountId,
         sequence |-> account.sequence + 1,
         operations |-> <<InvokeHostFunctionOp(Undefined, invokeOp.func, invokeOp.auth)>>,
         sorobanData |-> transaction.sorobanData,
         fee |-> transaction.fee,
         timeBounds |-> setTimeout(Now,
                NullishOr(requirements.maxTimeoutSeconds, DEFAULT_TIMEOUT_SECONDS)),
         ledgerBounds |-> transaction.ledgerBounds,
         memo |-> transaction.memo,
         minAccountSequence |-> transaction.minAccountSequence,
         minAccountSequenceAge |-> transaction.minAccountSequenceAge,
         minAccountSequenceLedgerGap |-> transaction.minAccountSequenceLedgerGap,
         extraSigners |-> transaction.extraSigners]

\* Steps 3 and 4: the client's operation in a transaction of the facilitator's
\* account, which takes the account's next sequence number. The builder is
\* given the client's fee, ledger bounds, memo, minimum-sequence constraints,
\* extra signers and Soroban data; it is not given the client's time bounds,
\* setTimeout sets them.
RebuiltTransaction(account, transaction, requirements) ==
    LET invokeOp == transaction.operations[1]
    IN  [source |-> account.accountId,
         sequence |-> account.sequence + 1,
         operations |-> <<InvokeHostFunctionOp(invokeOp.source, invokeOp.func, invokeOp.auth)>>,
         sorobanData |-> transaction.sorobanData,
         fee |-> transaction.fee,
         timeBounds |-> setTimeout(Now,
                NullishOr(requirements.maxTimeoutSeconds, DEFAULT_TIMEOUT_SECONDS)),
         ledgerBounds |-> transaction.ledgerBounds,
         memo |-> transaction.memo,
         minAccountSequence |-> transaction.minAccountSequence,
         minAccountSequenceAge |-> transaction.minAccountSequenceAge,
         minAccountSequenceLedgerGap |-> transaction.minAccountSequenceLedgerGap,
         extraSigners |-> transaction.extraSigners]

\* getAccount raises or returns the facilitator's account.
GetAccountReturn ==
    /\ pc = "settle_getAccount"
    /\ \/ /\ SettleCatch
          /\ raised' = "getAccount"
          /\ UNCHANGED <<rebuiltTx, calls, facilitatorAccount>>
       \/ \E sequence \in AccountSequences :
            /\ facilitatorAccount' = <<Account(FacilitatorSigner.address, sequence)>>
            /\ rebuiltTx' = <<RebuiltTransaction(Account(FacilitatorSigner.address, sequence),
                                payload.payload.tx, paymentRequirements)>>
            /\ pc' = "settle_sign"
            /\ Called("signTransaction")
            /\ UNCHANGED <<settleResult, raised>>
    /\ UNCHANGED <<inputs, api, text, fromAddress, simulation, verifyResult, thrown,
                   payer, txHash, i, sendResult, lastStatus, pollErrors, signError,
                   concurrent, elsewhere>>

\* What signer.signTransaction does: it raises, or it returns {signedTxXdr,
\* error}, the error being set ("error") or not ("ok").
SignTransactionOutcomes == {"throw", "error", "ok"}

\* Mutant: the reported error is not looked at.
signingFailed_never(outcome) == FALSE

\* if (signError)
signingFailed(outcome) == outcome = "error"

\* Step 5: signTransaction raises, reports an error, or returns the signed XDR.
SignTransactionReturn ==
    /\ pc = "settle_sign"
    /\ \E outcome \in SignTransactionOutcomes :
        CASE outcome = "throw" ->
                /\ SettleCatch
                /\ raised' = "signTransaction"
                /\ UNCHANGED <<calls, signError>>
          [] signingFailed(outcome) ->
                /\ signError' = <<outcome = "error">>
                /\ settleResult' = <<errorResponse(
                        "settle_exact_stellar_transaction_signing_failed",
                        payload.network, payer, Undefined)>>
                /\ pc' = "done"
                /\ UNCHANGED <<calls, raised>>
          [] OTHER ->
                /\ signError' = <<outcome = "error">>
                /\ pc' = "settle_send"
                /\ Called("sendTransaction")
                /\ UNCHANGED <<settleResult, raised>>
    /\ UNCHANGED <<inputs, api, text, fromAddress, simulation, verifyResult, thrown,
                   payer, txHash, i, rebuiltTx, sendResult, lastStatus, pollErrors,
                   facilitatorAccount, concurrent, elsewhere>>

\* Mutant: when the attempts are used up the transaction is submitted again.
PollNext_resubmit(hash, attempt, attempts) ==
    IF attempt < attempts
    THEN /\ pc' = "settle_poll"
         /\ Called("getTransaction")
         /\ UNCHANGED settleResult
    ELSE /\ pc' = "settle_send"
         /\ Called("sendTransaction")
         /\ UNCHANGED settleResult

\* Mutant: the loop runs while i <= maxPollAttempts.
PollNext_oneMore(hash, attempt, attempts) ==
    IF attempt <= attempts
    THEN /\ pc' = "settle_poll"
         /\ Called("getTransaction")
         /\ UNCHANGED settleResult
    ELSE /\ settleResult' = <<errorResponse("settle_exact_stellar_transaction_failed",
                                            payload.network, payer, hash)>>
         /\ pc' = "done"
         /\ UNCHANGED calls

\* pollForTransaction at the head of its loop: another query, or the timeout.
PollNext(hash, attempt, attempts) ==
    IF attempt < attempts
    THEN /\ pc' = "settle_poll"
         /\ Called("getTransaction")
         /\ UNCHANGED settleResult
    ELSE /\ settleResult' = <<errorResponse("settle_exact_stellar_transaction_failed",
                                            payload.network, payer, hash)>>
         /\ pc' = "done"
         /\ UNCHANGED calls

maxPollAttempts ==
    NullishOr(paymentRequirements.maxTimeoutSeconds, DEFAULT_TIMEOUT_SECONDS)

\* Mutant: a DUPLICATE submission is polled like a PENDING one.
submissionAccepted_orDuplicate(status) == status \in {"PENDING", "DUPLICATE"}

\* Mutant: only an ERROR status stops settle after the submission.
submissionAccepted_unlessError(status) == status # "ERROR"

submissionAccepted(status) == status = "PENDING"

\* Step 6: sendTransaction raises or returns a status and a hash.
SendTransactionReturn ==
    /\ pc = "settle_send"
    /\ \/ /\ SettleCatch
          /\ raised' = "sendTransaction"
          /\ UNCHANGED <<txHash, sendResult, calls>>
       \/ \E status \in SendStatuses, hash \in Hashes :
            /\ sendResult' = <<[status |-> status, hash |-> hash]>>
            /\ UNCHANGED raised
            /\ IF ~submissionAccepted(status)
               THEN /\ settleResult' = <<errorResponse(
                            "settle_exact_stellar_transaction_submission_failed",
                            payload.network, payer, Undefined)>>
                    /\ pc' = "done"
                    /\ UNCHANGED <<txHash, calls>>
               ELSE /\ txHash' = hash
                    /\ PollNext(hash, 0, maxPollAttempts)
    /\ UNCHANGED <<inputs, api, text, fromAddress, simulation, verifyResult, thrown,
                   payer, i, rebuiltTx, lastStatus, pollErrors, signError,
                   facilitatorAccount, concurrent, elsewhere>>

\* The statuses at which pollForTransaction returns.
pollSucceeded(status) == status = "SUCCESS"

\* Mutant: a FAILED status is polled again like a pending one.
pollFailed_never(status) == FALSE

pollFailed(status) == status = "FAILED"

\* Mutant: the loop body has no catch, only a pending status is retried.
pollContinues_unlessRaised(status) == status = "NOT_FOUND"

\* The loop goes round again: the status is not final, or the query raised
\* and the catch of the loop body swallowed it.
pollContinues(status) == status = "NOT_FOUND" \/ status = "throw"

\* What one getTransaction does: it returns a status, or it raises.
GetTransactionOutcomes == {"SUCCESS", "FAILED", "NOT_FOUND", "throw"}

\* Step 7: one getTransaction of pollForTransaction returns or raises.
GetTransactionReturn ==
    /\ pc = "settle_poll"
    /\ \E status \in GetTransactionOutcomes :
        /\ lastStatus' = status
        /\ pollErrors' = IF status = "throw" THEN pollErrors + 1 ELSE pollErrors
        /\ CASE pollSucceeded(status) ->
                    /\ settleResult' = <<successResponse(txHash, payload.network, payer)>>
                    /\ pc' = "done"
                    /\ UNCHANGED <<i, calls>>
             [] pollFailed(status) ->
                    /\ settleResult' = <<errorResponse(
                            "settle_exact_stellar_transaction_failed",
                            payload.network, payer, txHash)>>
                    /\ pc' = "done"
                    /\ UNCHANGED <<i, calls>>
             [] pollContinues(status) ->
                    /\ i' = i + 1
                    /\ PollNext(txHash, i + 1, maxPollAttempts)
             [] OTHER ->
                    \* an exception leaves pollForTransaction
                    /\ SettleCatch
                    /\ UNCHANGED <<i, calls>>
    /\ UNCHANGED <<inputs, api, text, fromAddress, simulation, verifyResult, thrown,
                   payer, txHash, rebuiltTx, sendResult, signError, raised,
                   facilitatorAccount, concurrent, elsewhere>>

Next ==
    \/ VerifyCall
    \/ VerifySimulateReturn
    \/ SettleCall
    \/ SettleSimulateReturn
    \/ GetAccountReturn
    \/ SignTransactionReturn
    \/ SendTransactionReturn
    \/ GetTransactionReturn

Spec == Init /\ [][Next]_vars

\* --------------------------------------------- settle, called concurrently

\* The calls of settle that run side by side.
Callers == {1, 2}

\* What the calls are given: a valid payment of ClientA or of ClientB, under
\* requirements with a poll budget; the RPC client can be built.
ConcurrentInputs ==
    { Input(Payload(1, "exact", "stellar-testnet", XdrText(ClientTx(from))),
            Requirements("stellar-testnet", AssetX, Recipient, <<"1", "0", "0">>, timeout),
            CustomConfig) :
      from \in {ClientA, ClientB}, timeout \in Timeouts \ {Absent} }

\* The locals of a call of settle when it starts: nothing of a call outlives
\* it, and a call reads nothing another call wrote.
NewSettle(in) ==
    [payload |-> in.payload, paymentRequirements |-> in.paymentRequirements,
     pc |-> "idle", text |-> "none", fromAddress |-> Undefined,
     verifyResult |-> <<>>, settleResult |-> <<>>, payer |-> Undefined,
     txHash |-> Undefined, i |-> 0, rebuiltTx |-> <<>>, calls |-> NoCalls]

\* The ledger behind the RPC client, as far as the four capabilities show it:
\* the facilitator account's sequence number, the result of every transaction
\* it accepted, and the authorization entries accepted transactions used up.
\* It applies an accepted transaction before it answers the next request.
NewLedger(sequence) ==
    [sequence |-> sequence, pending |-> {}, results |-> {}, spent |-> {}]

\* The hash of a transaction: two transactions have the same hash exactly when
\* they are the same.
HashOf(tx) == ToString(tx)

\* The signed address entries an operation carries.
SignedEntries(op) ==
    { op.auth[k] : k \in { j \in 1..Len(op.auth) :
                            op.auth[j].credentials = "sorobanCredentialsAddress" } }

\* simulateTransaction: an invocation whose authorization entry was used up
\* by another transaction fails; any other succeeds and records no entry.
ledgerSimulate(l, tx) ==
    IF SignedEntries(tx.operations[1]) \cap l.spent # {}
    THEN SimError
    ELSE SimSuccess(<<>>)

\* getAccount(address): the facilitator's account at its current sequence.
ledgerGetAccount(l, address) == Account(address, l.sequence)

\* sendTransaction(tx): DUPLICATE for a transaction the ledger has already,
\* TRY_AGAIN_LATER while another transaction of the account is pending, ERROR
\* for one whose sequence number is not the account's next, PENDING
\* otherwise: the transaction is held until the ledger closes.
ledgerSendTransaction(l, tx) ==
    LET hash == HashOf(tx)
        known == \/ \E r \in l.results : r.hash = hash
                 \/ \E t \in l.pending : HashOf(t) = hash
    IN  IF known
        THEN [status |-> "DUPLICATE", hash |-> hash, ledger |-> l]
        ELSE IF l.pending # {}
        THEN [status |-> "TRY_AGAIN_LATER", hash |-> hash, ledger |-> l]
        ELSE IF tx.sequence # l.sequence + 1
        THEN [status |-> "ERROR", hash |-> hash, ledger |-> l]
        ELSE [status |-> "PENDING", hash |-> hash,
              ledger |-> [l EXCEPT !.pending = {tx}]]

\* The ledger closes with the pending transaction `tx`: it takes the sequence
\* number, and fails when an authorization entry of it is used up, else
\* succeeds and uses up its entries.
ledgerApply(l, tx) ==
    LET entries == SignedEntries(tx.operations[1])
        replayed == entries \cap l.spent # {}
    IN  [sequence |-> tx.sequence,
         pending |-> l.pending \ {tx},
         results |-> l.results \cup
            {[hash |-> HashOf(tx), status |-> IF replayed THEN "FAILED" ELSE "SUCCESS"]},
         spent |-> IF replayed THEN l.spent ELSE l.spent \cup entries]

\* getTransaction(hash): the result of an accepted transaction.
ledgerGetTransaction(l, hash) ==
    IF \E r \in l.results : r.hash = hash
    THEN (CHOOSE r \in l.results : r.hash = hash).status
    ELSE "NOT_FOUND"

\* One more invocation of a capability by the call `c`.
Invoked(c, name) == [c EXCEPT !.calls[name] = @ + 1]

\* The catch block of settle, for the call `c`.
settle_catch(c) ==
    [c EXCEPT !.settleResult = <<errorResponse("unexpected_settle_error",
                                    c.payload.network, c.payer, c.txHash)>>,
              !.pc = "done"]

\* Steps 1 and 2 of settle for the call `c`, once verify has answered.
settle_afterVerify(c, verifyResponse) ==
    LET v == [c EXCEPT !.verifyResult = <<verifyResponse>>]
    IN  IF verifyFailed(verifyResponse)
        THEN [v EXCEPT !.settleResult = <<errorResponse(verifyResponse.invalidReason,
                                c.payload.network, verifyResponse.payer, Undefined)>>,
                       !.pc = "done"]
        ELSE IF missingSorobanData(c.payload.payload.tx)
        THEN [v EXCEPT !.payer = verifyResponse.payer,
                       !.settleResult = <<errorResponse(
                                "invalid_exact_stellar_payload_malformed",
                                c.payload.network, verifyResponse.payer, Undefined)>>,
                       !.pc = "done"]
        ELSE Invoked([v EXCEPT !.payer = verifyResponse.payer,
                               !.pc = "settle_getAccount"], "getAccount")

\* Mutant: the loop of the call `c` runs once more than the budget.
settle_pollNext_oneMore(c, hash, attempt, attempts) ==
    IF attempt <= attempts
    THEN Invoked([c EXCEPT !.i = attempt, !.pc = "settle_poll"], "getTransaction")
    ELSE [c EXCEPT !.i = attempt,
                   !.settleResult = <<errorResponse(
                        "settle_exact_stellar_transaction_failed",
                        c.payload.network, c.payer, hash)>>,
                   !.pc = "done"]

\* pollForTransaction at the head of its loop, for the call `c`.
settle_pollNext(c, hash, attempt, attempts) ==
    IF attempt < attempts
    THEN Invoked([c EXCEPT !.i = attempt, !.pc = "settle_poll"], "getTransaction")
    ELSE [c EXCEPT !.i = attempt,
                   !.settleResult = <<errorResponse(
                        "settle_exact_stellar_transaction_failed",
                        c.payload.network, c.payer, hash)>>,
                   !.pc = "done"]

\* A call of settle starts and runs up to verify's await of the simulation.
ConcurrentSettleCall(p) ==
    /\ settles[p].pc = "idle"
    /\ \E t \in VerifyTexts :
        LET c == [settles[p] EXCEPT !.text = t]
            before ==
                IF t = "verify"
                THEN verifyBeforeSimulation(c.payload, c.paymentRequirements, NoConfig)
                ELSE verify_serverBeforeSimulation(c.payload, c.paymentRequirements)
        IN  settles' = [settles EXCEPT ![p] =
                CASE before.kind = "return" -> settle_afterVerify(c, before.resp)
                  [] before.kind = "throw" -> settle_catch(c)
                  [] OTHER -> Invoked([c EXCEPT !.fromAddress = before.fromAddress,
                                                !.pc = "settle_simulate"],
                                      "simulateTransaction")]
    /\ UNCHANGED <<ledger, alone, elsewhere>>

\* The ledger answers the simulation of the call's verify.
ConcurrentSimulateReturn(p) ==
    /\ settles[p].pc = "settle_simulate"
    /\ LET c == settles[p]
           simulateResponse == ledgerSimulate(ledger, c.payload.payload.tx)
           after ==
                IF c.text = "verify"
                THEN verifyAfterSimulation(RpcServer, c.payload.payload.tx,
                                           c.fromAddress, simulateResponse)
                ELSE verify_serverAfterSimulation(c.payload.payload.tx,
                                                  c.fromAddress, simulateResponse)
       IN  settles' = [settles EXCEPT ![p] =
                IF after.kind = "return"
                THEN settle_afterVerify(c, after.resp)
                ELSE settle_catch(c)]
    /\ UNCHANGED <<ledger, alone, elsewhere>>

\* The ledger returns the facilitator's account, and the call rebuilds.
ConcurrentGetAccountReturn(p) ==
    /\ settles[p].pc = "settle_getAccount"
    /\ LET c == settles[p]
           facilitator == ledgerGetAccount(ledger, FacilitatorSigner.address)
       IN  settles' = [settles EXCEPT ![p] =
                Invoked([c EXCEPT !.rebuiltTx = <<RebuiltTransaction(facilitator,
                                        c.payload.payload.tx, c.paymentRequirements)>>,
                                  !.pc = "settle_sign"],
                        "signTransaction")]
    /\ UNCHANGED <<ledger, alone, elsewhere>>

\* The signer returns the rebuilt transaction signed: the facilitator's signer
\* works.
ConcurrentSignTransactionReturn(p) ==
    /\ settles[p].pc = "settle_sign"
    /\ LET c == settles[p]
           outcome == "ok"
       IN  settles' = [settles EXCEPT ![p] =
                IF signingFailed(outcome)
                THEN [c EXCEPT !.settleResult = <<errorResponse(
                                    "settle_exact_stellar_transaction_signing_failed",
                                    c.payload.network, c.payer, Undefined)>>,
                               !.pc = "done"]
                ELSE Invoked([c EXCEPT !.pc = "settle_send"], "sendTransaction")]
    /\ UNCHANGED <<ledger, alone, elsewhere>>

\* The ledger answers the submission of the call's rebuilt transaction.
ConcurrentSendTransactionReturn(p) ==
    /\ settles[p].pc = "settle_send"
    /\ LET c == settles[p]
           sent == ledgerSendTransaction(ledger, c.rebuiltTx[1])
           attempts == NullishOr(c.paymentRequirements.maxTimeoutSeconds,
                                 DEFAULT_TIMEOUT_SECONDS)
       IN  /\ ledger' = sent.ledger
           /\ settles' = [settles EXCEPT ![p] =
                IF ~submissionAccepted(sent.status)
                THEN [c EXCEPT !.settleResult = <<errorResponse(
                                    "settle_exact_stellar_transaction_submission_failed",
                                    c.payload.network, c.payer, Undefined)>>,
                               !.pc = "done"]
                ELSE settle_pollNext([c EXCEPT !.txHash = sent.hash],
                                     sent.hash, 0, attempts)]
    /\ UNCHANGED <<alone, elsewhere>>

\* The ledger answers a status query of the call.
ConcurrentGetTransactionReturn(p) ==
    /\ settles[p].pc = "settle_poll"
    /\ LET c == settles[p]
           status == ledgerGetTransaction(ledger, c.txHash)
           attempts == NullishOr(c.paymentRequirements.maxTimeoutSeconds,
                                 DEFAULT_TIMEOUT_SECONDS)
       IN  settles' = [settles EXCEPT ![p] =
                CASE pollSucceeded(status) ->
                        [c EXCEPT !.settleResult = <<successResponse(c.txHash,
                                        c.payload.network, c.payer)>>,
                                  !.pc = "done"]
                  [] pollFailed(status) ->
                        [c EXCEPT !.settleResult = <<errorResponse(
                                        "settle_exact_stellar_transaction_failed",
                                        c.payload.network, c.payer, c.txHash)>>,
                                  !.pc = "done"]
                  [] pollContinues(status) ->
                        settle_pollNext(c, c.txHash, c.i + 1, attempts)
                  [] OTHER -> settle_catch(c)]
    /\ UNCHANGED <<ledger, alone, elsewhere>>

\* The ledger closes: a pending transaction is applied, whatever the calls of
\* settle are doing and whether or not the call that submitted it has returned.
LedgerClose ==
    /\ \E tx \in ledger.pending : ledger' = ledgerApply(ledger, tx)
    /\ UNCHANGED <<settles, alone, elsewhere>>

\* Two calls of settle, not yet started, and a ledger.
ConcurrentInit ==
    /\ settles \in [Callers -> {NewSettle(in) : in \in ConcurrentInputs}]
    /\ \E sequence \in AccountSequences : ledger = NewLedger(sequence)
    /\ NotCalled
    /\ auditor = <<>>
    /\ client = <<>>

ConcurrentNext ==
    \/ \E p \in Callers :
        \/ ConcurrentSettleCall(p)
        \/ ConcurrentSimulateReturn(p)
        \/ ConcurrentGetAccountReturn(p)
        \/ ConcurrentSignTransactionReturn(p)
        \/ ConcurrentSendTransactionReturn(p)
        \/ ConcurrentGetTransactionReturn(p)
    \/ LedgerClose

SpecConcurrent == ConcurrentInit /\ [][ConcurrentNext]_vars

\* ------------------------------------------------ the auditor, on its own

\* The transactions handed to the auditor: the client's transfer under every
\* authorization list, and transactions that are no single invocation.
AuditorTransactions ==
    {TransferTx(ClientA, ClientA, Undefined, auth, TRUE) : auth \in AuthLists}
    \cup OddTxs

\* No simulation response, or a successful one recording no entry, a
\* source-account entry, or unsigned address entries.
AuditorSimulations ==
    {Absent}
    \cup {Some(SimSuccess(auth)) : auth \in
            {<<>>, <<SourceAccountEntry>>, <<AddressEntry(ClientA, "scvVoid")>>,
             <<AddressEntry(ClientB, "scvVoid"), AddressEntry(ClientB, "scvVoid")>>}}

AuditorInputs ==
    {GatherAuthEntrySignatureStatusInput(transaction, simulationResponse, simulate) :
        transaction \in AuditorTransactions,
        simulationResponse \in AuditorSimulations,
        simulate \in {Absent, Some(TRUE), Some(FALSE)}}

\* One run of gatherAuthEntrySignatureStatus on the input: what it returns (or
\* that it raised), and the transaction before and after.
GatherCall ==
    /\ Len(auditor.runs) < MaxRuns
    /\ LET after == transactionAfterGather(auditor.input)
       IN  auditor' =
            [input |-> [auditor.input EXCEPT !.transaction = after],
             runs  |-> Append(auditor.runs,
                        [before |-> auditor.input.transaction,
                         after  |-> after,
                         result |-> gatherAuthEntrySignatureStatus(auditor.input)])]
    /\ UNCHANGED <<alone, concurrent, client>>

AuditorInit ==
    /\ auditor \in {[input |-> input, runs |-> <<>>] : input \in AuditorInputs}
    /\ NotCalled
    /\ settles = <<>>
    /\ ledger = <<>>
    /\ client = <<>>

AuditorNext == GatherCall

SpecAuditor == AuditorInit /\ [][AuditorNext]_vars

\* ----------------------------------------------------------------- client

\* isStellarSigner(signer).
StellarSigner(address) == [address |-> address, isStellarSigner |-> TRUE]
NotASigner == [address |-> Undefined, isStellarSigner |-> FALSE]

\* StellarDestinationAddressRegex.test(payTo), StellarAssetAddressRegex.test(asset).
StellarDestinationAddressRegex(payTo) ==
    payTo \in {Recipient, ClientA, ClientB, Facilitator}
StellarAssetAddressRegex(asset) == asset \in {AssetX, AssetZ}

\* validateCreateAndSignPaymentInput throws.
validateCreateAndSignPaymentInputThrows(signer, requirements) ==
    \/ ~signer.isStellarSigner
    \/ requirements.scheme # "exact"
    \/ requirements.network \notin SupportedStellarNetworks
    \/ ~StellarDestinationAddressRegex(requirements.payTo)
    \/ ~StellarAssetAddressRegex(requirements.asset)

\* handleSimulationResult throws: no simulation, a restore or an error.
handleSimulationResultThrows(simulationResult) ==
    simulationResult.kind \in {"undefined", "restore", "error"}

\* Mutant: several missing signers pass when the client's is among them.
unexpectedSigners_unlessIncluded(missingSigners, sourcePublicKey) ==
    ~includes(missingSigners, sourcePublicKey)

\* !missingSigners.includes(sourcePublicKey) || missingSigners.length > 1
unexpectedSigners(missingSigners, sourcePublicKey) ==
    ~includes(missingSigners, sourcePublicKey) \/ Len(missingSigners) > 1

\* What tx.simulation holds after AssembledTransaction.build or tx.simulate.
ClientSimulations ==
    {[kind |-> k] : k \in {"undefined", "restore", "error", "success"}}

\* What tx.needsNonInvokerSigningBy() returns: the library's answer, any list
\* of distinct addresses.
MissingSignerLists ==
    {<<>>, <<ClientA>>, <<ClientB>>, <<ClientA, ClientB>>, <<ClientB, ClientA>>}

\* The PaymentPayload returned: the version given, the scheme and network of
\* the requirements, and the built transfer as text.
ClientPayload(x402Version, requirements, sourcePublicKey) ==
    [x402Version |-> x402Version,
     scheme |-> requirements.scheme,
     network |-> requirements.network,
     payload |->
        [transaction |->
            [contractId |-> requirements.asset,
             method |-> "transfer",
             args |-> <<ScvAddress(sourcePublicKey),
                        ScvAddress(requirements.payTo),
                        ScvI128(BigInt(requirements.maxAmountRequired))>>]]]

ClientInputs ==
    {[signer |-> signer, x402Version |-> version,
      paymentRequirements |-> Requirements(network, asset, payTo, amount, Absent),
      config |-> cfg] :
        signer \in {StellarSigner(ClientA), NotASigner}, version \in {1, 2},
        network \in Networks, asset \in {AssetX, "not a contract"},
        payTo \in {Recipient, "not an address"},
        amount \in {<<"1", "0", "0">>, <<"1", ".", "5">>},
        cfg \in {NoConfig, CustomConfig}}

NewClient(in) ==
    [signer |-> in.signer, x402Version |-> in.x402Version,
     paymentRequirements |-> in.paymentRequirements, config |-> in.config,
     pc |-> "idle", missingSigners |-> <<>>, result |-> <<>>, thrown |-> "none",
     calls |-> [build |-> 0, signAuthEntries |-> 0, simulate |-> 0]]

ClientThrows(message) == [client EXCEPT !.pc = "done", !.thrown = message]

\* createAndSignPayment up to its await of AssembledTransaction.build.
CreateAndSignPaymentCall ==
    /\ client.pc = "idle"
    /\ LET network == client.paymentRequirements.network
       IN  client' =
            IF validateCreateAndSignPaymentInputThrows(client.signer,
                                                       client.paymentRequirements)
            THEN ClientThrows("Invalid input parameters for creating Stellar payment")
            ELSE IF getNetworkPassphraseThrows(network)
            THEN ClientThrows("getNetworkPassphrase")
            ELSE IF getRpcUrlThrows(network, client.config)
            THEN ClientThrows("getRpcUrl")
            ELSE IF BigIntThrows(client.paymentRequirements.maxAmountRequired)
            THEN ClientThrows("nativeToScVal")
            ELSE [client EXCEPT !.pc = "build", !.calls.build = 1]
    /\ UNCHANGED <<alone, concurrent, auditor>>

\* AssembledTransaction.build returns or raises; the first simulation result
\* is handled and the signers it requires are checked; then signAuthEntries is
\* awaited.
BuildReturn ==
    /\ client.pc = "build"
    /\ \/ client' = ClientThrows("AssembledTransaction.build")
       \/ \E simulationResult \in ClientSimulations, missingSigners \in MissingSignerLists :
            client' =
                IF handleSimulationResultThrows(simulationResult)
                THEN ClientThrows("handleSimulationResult")
                ELSE IF unexpectedSigners(missingSigners, client.signer.address)
                THEN [ClientThrows("Expected to sign with")
                        EXCEPT !.missingSigners = <<missingSigners>>]
                ELSE [client EXCEPT !.pc = "sign",
                                    !.missingSigners = <<missingSigners>>,
                                    !.calls.signAuthEntries = 1]
    /\ UNCHANGED <<alone, concurrent, auditor>>

\* tx.signAuthEntries returns or raises; then tx.simulate is awaited.
SignAuthEntriesReturn ==
    /\ client.pc = "sign"
    /\ \/ client' = ClientThrows("signAuthEntries")
       \/ client' = [client EXCEPT !.pc = "simulate", !.calls.simulate = 1]
    /\ UNCHANGED <<alone, concurrent, auditor>>

\* tx.simulate returns or raises; the second simulation result is handled, no
\* signer may still be required, and the payload is returned.
SimulateReturn ==
    /\ client.pc = "simulate"
    /\ \/ client' = ClientThrows("simulate")
       \/ \E simulationResult \in ClientSimulations, missingSigners \in MissingSignerLists :
            client' =
                IF handleSimulationResultThrows(simulationResult)
                THEN ClientThrows("handleSimulationResult")
                ELSE IF Len(missingSigners) > 0
                THEN [ClientThrows("unexpected signer(s) required")
                        EXCEPT !.missingSigners = Append(@, missingSigners)]
                ELSE [client EXCEPT
                        !.pc = "done",
                        !.missingSigners = Append(@, missingSigners),
                        !.result = <<ClientPayload(client.x402Version,
                                                   client.paymentRequirements,
                                                   client.signer.address)>>]
    /\ UNCHANGED <<alone, concurrent, auditor>>

ClientInit ==
    /\ client \in {NewClient(in) : in \in ClientInputs}
    /\ NotCalled
    /\ settles = <<>>
    /\ ledger = <<>>
    /\ auditor = <<>>

ClientNext ==
    \/ CreateAndSignPaymentCall
    \/ BuildReturn
    \/ SignAuthEntriesReturn
    \/ SimulateReturn

SpecClient == ClientInit /\ [][ClientNext]_vars

\* ------------------------------------------------------------------ claims

\* What the claims say of the inputs, stated apart from verify's own steps.
Decodes == payload.payload.kind = "xdr"
DecodedTx == payload.payload.tx
TheOperation == DecodedTx.operations[1]
TheArgs == TheOperation.func.args
DecodedFrom == TheArgs[1].value

ProtocolOk ==
    /\ payload.x402Version = 1
    /\ payload.scheme = "exact"
    /\ payload.network = paymentRequirements.network
    /\ paymentRequirements.network \in SupportedStellarNetworks

SingleInvocation ==
    /\ Decodes
    /\ Len(DecodedTx.operations) = 1
    /\ TheOperation.type = "invokeHostFunction"
    /\ TheOperation.func.kind = "hostFunctionTypeInvokeContract"

SingleTransfer ==
    /\ SingleInvocation
    /\ TheOperation.func.functionName = "transfer"
    /\ Len(TheArgs) = 3

AssetMatches == TheOperation.func.contractAddress = paymentRequirements.asset
RecipientMatches == TheArgs[2].value = paymentRequirements.payTo
AmountIsInteger == \A k \in 1..Len(paymentRequirements.maxAmountRequired) :
                      paymentRequirements.maxAmountRequired[k] \in
                          {"0", "1", "2", "3", "4", "5", "6", "7", "8", "9"}
AmountMatches ==
    /\ AmountIsInteger
    /\ TheArgs[3].value = BigInt(paymentRequirements.maxAmountRequired)

TransferMatches ==
    SingleTransfer /\ AssetMatches /\ RecipientMatches /\ AmountMatches

VerifyReturned == verifyResult # <<>>
VerifyDone == api = "verify" /\ pc = "done"
SettleReturned == settleResult # <<>>

\* C1: whenever verify returns isValid = true (called by the facilitator or
\* inside settle, either text, whatever the simulation answered), the payload
\* decodes to exactly one operation, a contract invocation of "transfer" with
\* exactly 3 arguments, on the contract requirements.asset, whose second
\* argument is requirements.payTo and whose third is maxAmountRequired as an
\* integer.
C1_ValidImpliesTransferMatches ==
    (VerifyReturned /\ verifyResult[1].isValid) => TransferMatches

C1_Witness ==
    /\ VerifyDone
    /\ VerifyReturned /\ verifyResult[1].isValid
    /\ simulation # <<>>
    /\ TransferMatches

\* The address-credential entries of the operation are exactly one, the
\* payer's, and it is signed.
AddressEntriesOf(auth) ==
    {k \in 1..Len(auth) : auth[k].credentials = "sorobanCredentialsAddress"}
OnlyPayerSigned ==
    /\ Cardinality(AddressEntriesOf(TheOperation.auth)) = 1
    /\ \A k \in AddressEntriesOf(TheOperation.auth) :
        /\ TheOperation.auth[k].address = DecodedFrom
        /\ TheOperation.auth[k].signature # "scvVoid"

SourcesAvoid(address) ==
    TheOperation.source # address /\ DecodedTx.source # address

SimulationSucceeded == simulation # <<>> /\ simulation[1].kind = "success"

\* C2: verify, called for a payload with version 1, scheme "exact" and a
\* supported network equal to the requirements', whose single transfer matches
\* asset, payTo and amount, whose only address-credential entry is the payer's
\* and signed, whose sources are not the facilitator, and whose re-simulation
\* succeeded, returns isValid = true with payer = the decoded `from`.
C2_MatchingSignedPayloadIsValid ==
    (/\ VerifyDone
     /\ ProtocolOk
     /\ TransferMatches
     /\ OnlyPayerSigned
     /\ SourcesAvoid(FacilitatorSigner.address)
     /\ SimulationSucceeded)
    => (/\ ~thrown
        /\ verifyResult = <<[isValid |-> TRUE, invalidReason |-> Undefined,
                             payer |-> DecodedFrom]>>)

\* The payload createAndSignPayment builds, verified and found valid.
C2_Witness ==
    /\ VerifyDone
    /\ ProtocolOk
    /\ DecodedTx = ClientTx(ClientA)
    /\ TransferMatches /\ OnlyPayerSigned
    /\ SimulationSucceeded
    /\ VerifyReturned /\ verifyResult[1].isValid /\ verifyResult[1].payer = ClientA

\* C3: if the verification settle runs returns an invalid result, settle has
\* returned success = false with that reason, that payer and an empty hash,
\* and getAccount, signTransaction, sendTransaction and getTransaction were
\* never invoked.
C3_InvalidVerifyStopsSettle ==
    (api = "settle" /\ VerifyReturned /\ ~verifyResult[1].isValid)
    => (/\ pc = "done"
        /\ settleResult = <<[success |-> FALSE,
                             errorReason |-> verifyResult[1].invalidReason,
                             transaction |-> "",
                             network |-> payload.network,
                             payer |-> verifyResult[1].payer]>>
        /\ calls.getAccount = 0
        /\ calls.signTransaction = 0
        /\ calls.sendTransaction = 0
        /\ calls.getTransaction = 0)

\* settle has answered an invalid verification that carried a payer.
C3_Witness ==
    /\ api = "settle"
    /\ VerifyReturned /\ ~verifyResult[1].isValid
    /\ verifyResult[1].payer = ClientA
    /\ SettleReturned /\ settleResult[1].payer = ClientA
    /\ settleResult[1].errorReason = "invalid_exact_stellar_payload_wrong_amount"

\* C4: settle returns success = true only if, in that call, verification was
\* valid, the submission returned PENDING and a later status query for the
\* submitted hash returned SUCCESS; the response carries the submission's hash
\* and verification's payer, and no errorReason.
C4_SuccessOnlyAfterConfirmation ==
    (SettleReturned /\ settleResult[1].success)
    => (/\ api = "settle"
        /\ VerifyReturned /\ verifyResult[1].isValid
        /\ sendResult # <<>> /\ sendResult[1].status = "PENDING"
        /\ calls.getTransaction >= 1
        /\ txHash = sendResult[1].hash
        /\ lastStatus = "SUCCESS"
        /\ settleResult[1].transaction = sendResult[1].hash
        /\ settleResult[1].payer = verifyResult[1].payer
        /\ settleResult[1].errorReason = Undefined)

\* settle has succeeded after more than one status query.
C4_Witness ==
    /\ SettleReturned /\ settleResult[1].success
    /\ settleResult[1].transaction = "hash-2"
    /\ settleResult[1].payer = ClientA
    /\ calls.getTransaction = 2

SimulationPassed ==
    simulation # <<>> /\ simulation[1].kind \in {"success", "restore"}

UnsafeSourceResponse ==
    [isValid |-> FALSE,
     invalidReason |-> "invalid_exact_stellar_payload_unsafe_tx_or_op_source",
     payer |-> DecodedFrom]

\* C5 (as the specification states it): for every payload that passes the
\* requirement validation and the re-simulation, if the operation's or the
\* transaction's source is the facilitator's address, verify returns
\* isValid = false with reason unsafe_tx_or_op_source and payer = `from`,
\* whatever the authorization entries are.
C5_FacilitatorSourceIsUnsafe ==
    (/\ VerifyDone
     /\ ProtocolOk
     /\ TransferMatches
     /\ SimulationPassed
     /\ ~SourcesAvoid(FacilitatorSigner.address))
    => verifyResult = <<UnsafeSourceResponse>>

\* C6 (as the specification states it): settle never reaches the account
\* fetch, the signing or the submission for a payload whose transaction or
\* operation source is signer.address; and a payload whose operation has no
\* source of its own and whose transaction source is another account is not
\* rejected as unsafe_tx_or_op_source inside settle.
C6_SettleRejectsFacilitatorSource ==
    (api = "settle" /\ SingleInvocation)
    => /\ ~SourcesAvoid(FacilitatorSigner.address)
            => (/\ calls.getAccount = 0
                /\ calls.signTransaction = 0
                /\ calls.sendTransaction = 0)
       /\ (TheOperation.source = Undefined
           /\ DecodedTx.source # FacilitatorSigner.address
           /\ VerifyReturned)
            => verifyResult[1].invalidReason #
                    "invalid_exact_stellar_payload_unsafe_tx_or_op_source"

\* The RPC client of the text that builds one can be built.
RpcUrlMissing ==
    /\ text = "verify"
    /\ paymentRequirements.network = "stellar"
    /\ config.rpcUrl = Undefined

\* Something raised inside verify: the RPC client could not be built, the
\* payload carries no transaction text, maxAmountRequired is no integer once
\* the checks before it have passed, or the simulation raised.
RaisedInVerify ==
    /\ ProtocolOk
    /\ \/ RpcUrlMissing
       \/ payload.payload.kind = "missing"
       \/ SingleTransfer /\ AssetMatches /\ RecipientMatches /\ ~AmountIsInteger
       \/ simulation = <<SimThrow>>

\* C7: verify never throws: whatever the payload, the requirements and the
\* simulation (success, error or exception), a finished verify has returned a
\* response, and anything raised inside it is reported as isValid = false with
\* reason unexpected_verify_error.
C7_VerifyNeverThrows ==
    (api = "verify")
    => (/\ ~thrown
        /\ pc = "done" => VerifyReturned
        /\ (pc = "done" /\ RaisedInVerify)
            => (/\ VerifyReturned
                /\ ~verifyResult[1].isValid
                /\ verifyResult[1].invalidReason = "unexpected_verify_error"))

\* The simulation raised inside verify, and verify answered.
C7_Witness ==
    /\ VerifyDone
    /\ simulation = <<SimThrow>>
    /\ VerifyReturned
    /\ verifyResult[1].invalidReason = "unexpected_verify_error"

\* C8 (as the specification states it): settle never throws past its
\* boundary, whatever the signer, the payload and the requirements, an unknown
\* network or mainnet without an RPC URL included: a finished settle has
\* returned a SettleResponse with a structured errorReason.
C8_SettleNeverThrows ==
    (api = "settle")
    => (/\ ~thrown
        /\ pc = "done" => SettleReturned)

\* The payload would be valid against requirements that name its own asset,
\* recipient and amount.
ValidButForRequirements ==
    /\ ProtocolOk
    /\ ~RpcUrlMissing
    /\ SingleTransfer
    /\ OnlyPayerSigned
    /\ SourcesAvoid(FacilitatorSigner.address)

Rejected(reason, who) ==
    verifyResult = <<[isValid |-> FALSE, invalidReason |-> reason, payer |-> who]>>

FunctionMatches ==
    TheOperation.func.functionName = "transfer" /\ Len(TheArgs) = 3

FirstFailure(assetFirst) ==
    IF payload.x402Version # 1 THEN "invalid_x402_version"
    ELSE IF payload.scheme # "exact" THEN "invalid_scheme"
    ELSE IF ~ProtocolOk THEN "invalid_network"
    ELSE IF ~SingleInvocation THEN "invalid_exact_stellar_payload_wrong_operation"
    ELSE IF assetFirst /\ ~AssetMatches THEN "invalid_exact_stellar_payload_wrong_asset"
    ELSE IF ~FunctionMatches THEN "invalid_exact_stellar_payload_wrong_function_name"
    ELSE IF ~AssetMatches THEN "invalid_exact_stellar_payload_wrong_asset"
    ELSE IF ~RecipientMatches THEN "invalid_exact_stellar_payload_wrong_recipient"
    ELSE IF ~AmountMatches THEN "invalid_exact_stellar_payload_wrong_amount"
    ELSE "none"

\* The checks of the requirement validation are decided: the payload decodes
\* and nothing raises before the failing check.
ValidationDecides(reason) ==
    \/ reason \in {"invalid_x402_version", "invalid_scheme", "invalid_network"}
    \/ /\ reason # "none"
       /\ Decodes
       /\ ~RpcUrlMissing
       /\ reason = "invalid_exact_stellar_payload_wrong_amount" => AmountIsInteger

ReachesFunctionCheck ==
    /\ ProtocolOk
    /\ ~RpcUrlMissing
    /\ SingleInvocation
    /\ AssetMatches

\* C11 (as the specification states it): a single operation invoking
\* "transfer" on the required asset with a number of arguments other than 3 is
\* answered isValid = false with reason wrong_function_args, and
\* wrong_function_name is kept for a function name other than "transfer".
C11_ArgumentCountIsWrongFunctionArgs ==
    (VerifyDone /\ ReachesFunctionCheck)
    => /\ (TheOperation.func.functionName = "transfer" /\ Len(TheArgs) # 3)
            => (/\ VerifyReturned
                /\ ~verifyResult[1].isValid
                /\ verifyResult[1].invalidReason =
                        "invalid_exact_stellar_payload_wrong_function_args")
       /\ (/\ VerifyReturned
           /\ verifyResult[1].invalidReason =
                    "invalid_exact_stellar_payload_wrong_function_name")
            => TheOperation.func.functionName # "transfer"

\* C12 (as the specification states it): when the re-simulation answers
\* "restore required", verify answers isValid = false with reason
\* simulation_failed; the authorization audit runs only after a plain success.
C12_RestoreIsSimulationFailed ==
    (VerifyDone /\ simulation # <<>> /\ simulation[1].kind = "restore")
    => (/\ VerifyReturned
        /\ ~verifyResult[1].isValid
        /\ verifyResult[1].invalidReason =
                "invalid_exact_stellar_payload_simulation_failed")

SimulatingOrAuditingReasons ==
    { "invalid_exact_stellar_payload_simulation_failed",
      "invalid_exact_stellar_payload_unsafe_tx_or_op_source",
      "invalid_exact_stellar_payload_missing_payer_signature",
      "invalid_exact_stellar_payload_unexpected_pending_signatures" }

\* C13: every invalid response verify gives for the simulation or the audit
\* (simulation_failed, unsafe_tx_or_op_source, missing_payer_signature,
\* unexpected_pending_signatures) carries payer = the decoded `from`; and a
\* simulation error response is answered simulation_failed whatever the
\* authorization entries are.
C13_SimulatingAndAuditingReportPayer ==
    /\ (VerifyReturned /\ verifyResult[1].invalidReason \in SimulatingOrAuditingReasons)
        => (/\ ~verifyResult[1].isValid
            /\ SingleTransfer
            /\ verifyResult[1].payer = DecodedFrom)
    /\ (VerifyReturned /\ simulation = <<SimError>>)
        => Rejected("invalid_exact_stellar_payload_simulation_failed", DecodedFrom)

\* The ledger answered a simulation error to a payload nobody has signed.
C13_Witness ==
    /\ VerifyDone
    /\ simulation = <<SimError>>
    /\ TheOperation.auth = <<>>
    /\ Rejected("invalid_exact_stellar_payload_simulation_failed", ClientA)

\* The integer a decimal string denotes, read digit by digit from the left.
DigitOf ==
    ("0" :> 0) @@ ("1" :> 1) @@ ("2" :> 2) @@ ("3" :> 3) @@ ("4" :> 4) @@
    ("5" :> 5) @@ ("6" :> 6) @@ ("7" :> 7) @@ ("8" :> 8) @@ ("9" :> 9)

RECURSIVE DecimalFrom(_, _, _)
DecimalFrom(s, k, acc) ==
    IF k > Len(s) THEN acc ELSE DecimalFrom(s, k + 1, 10 * acc + DigitOf[s[k]])

DecimalValue(s) == DecimalFrom(s, 1, 0)

\* Every check of verify before the amount check passes, and
\* maxAmountRequired is a decimal integer.
ReachesAmountCheck ==
    /\ ProtocolOk
    /\ ~RpcUrlMissing
    /\ SingleTransfer
    /\ AssetMatches
    /\ RecipientMatches
    /\ AmountIsInteger

\* C14: for a payload passing every earlier check, verify passes the amount
\* check (and goes on to the simulation) if and only if the transfer's third
\* argument equals the integer maxAmountRequired denotes; a smaller and a
\* larger amount are both answered wrong_amount, and a different spelling of
\* the same integer changes nothing.
C14_AmountIsExactIntegerEquality ==
    (VerifyDone /\ ReachesAmountCheck)
    => IF TheArgs[3].value = DecimalValue(paymentRequirements.maxAmountRequired)
       THEN /\ simulation # <<>>
            /\ VerifyReturned
                => verifyResult[1].invalidReason #
                        "invalid_exact_stellar_payload_wrong_amount"
       ELSE Rejected("invalid_exact_stellar_payload_wrong_amount", DecodedFrom)

\* A transfer of 100 has been accepted against maxAmountRequired "0100".
C14_Witness ==
    /\ VerifyDone /\ ReachesAmountCheck
    /\ paymentRequirements.maxAmountRequired = <<"0", "1", "0", "0">>
    /\ TheArgs[3].value = 100
    /\ VerifyReturned /\ verifyResult[1].isValid

\* The authorization entries the audit reads: the operation's own, or the ones
\* the simulation recorded when the operation has none.
AuditedAuth ==
    IF Len(TheOperation.auth) > 0 THEN TheOperation.auth ELSE simulation[1].auth

SignedIn(auth) ==
    {auth[k].address : k \in {j \in AddressEntriesOf(auth) : auth[j].signature # "scvVoid"}}
PendingIn(auth) ==
    {auth[k].address : k \in {j \in AddressEntriesOf(auth) : auth[j].signature = "scvVoid"}}

\* verify has come to the audit with sources that are not the facilitator's.
Audited ==
    /\ VerifyDone
    /\ ProtocolOk
    /\ TransferMatches
    /\ SimulationPassed
    /\ SourcesAvoid(FacilitatorSigner.address)

\* C15: in the audit, the sources not being the facilitator's address: a payer
\* that is not among the already-signed addresses is answered
\* missing_payer_signature, pending signatures or not; a payer that has signed
\* with a signature still pending is answered unexpected_pending_signatures;
\* only a signed payer with nothing pending is valid, with payer = `from`.
C15_AuditOrder ==
    Audited
    => IF DecodedFrom \notin SignedIn(AuditedAuth)
       THEN Rejected("invalid_exact_stellar_payload_missing_payer_signature", DecodedFrom)
       ELSE IF PendingIn(AuditedAuth) # {}
       THEN Rejected("invalid_exact_stellar_payload_unexpected_pending_signatures",
                     DecodedFrom)
       ELSE verifyResult = <<[isValid |-> TRUE, invalidReason |-> Undefined,
                              payer |-> DecodedFrom]>>

\* The payer has not signed and another signature is pending.
C15_Witness ==
    /\ Audited
    /\ DecodedFrom \notin SignedIn(AuditedAuth)
    /\ PendingIn(AuditedAuth) # {}
    /\ Rejected("invalid_exact_stellar_payload_missing_payer_signature", DecodedFrom)

\* C16 (as the specification states it): whenever verify returns
\* isValid = true, the addresses with a signed address-credential entry in
\* the invocation are exactly {from}: a payload that also carries a signed
\* entry of another address is not accepted.
C16_PayerIsTheOnlySigner ==
    (VerifyReturned /\ verifyResult[1].isValid)
    => SignedIn(TheOperation.auth) = {DecodedFrom}

\* The poll budget of the call: maxTimeoutSeconds, or 60 without one.
Budget ==
    IF paymentRequirements.maxTimeoutSeconds = <<>>
    THEN 60
    ELSE paymentRequirements.maxTimeoutSeconds[1]

\* settle has submitted and the submission was accepted.
Submitted ==
    /\ api = "settle"
    /\ sendResult # <<>>
    /\ sendResult[1].status = "PENDING"

FinalStatuses == {"SUCCESS", "FAILED"}

SettleFailed(reason, hash) ==
    settleResult = <<[success |-> FALSE, errorReason |-> reason, transaction |-> hash,
                      network |-> payload.network, payer |-> verifyResult[1].payer]>>

\* C17: for every poll budget N (maxTimeoutSeconds, 60 when absent, 0
\* included), if after a PENDING submission no status query returns SUCCESS
\* or FAILED, settle makes exactly N status queries and then returns
\* success = false with reason transaction_failed, the submitted hash and the
\* payer.
C17_TimeoutAfterExactlyBudgetQueries ==
    (Submitted /\ lastStatus \notin FinalStatuses)
    => /\ i = Budget => pc = "done"
       /\ pc = "done"
            => (/\ calls.getTransaction = Budget
                /\ i = Budget
                /\ SettleFailed("settle_exact_stellar_transaction_failed",
                                sendResult[1].hash))

\* Sixty queries without a final status, maxTimeoutSeconds being absent.
C17_Witness ==
    /\ Submitted /\ pc = "done"
    /\ paymentRequirements.maxTimeoutSeconds = <<>>
    /\ calls.getTransaction = 60
    /\ SettleFailed("settle_exact_stellar_transaction_failed", sendResult[1].hash)

\* C18: a status query that raises never ends the loop and never fails settle
\* by itself: polling goes on while budget remains, a later SUCCESS still
\* gives success = true, and every query, raising or not, uses up exactly one
\* attempt, so that the queries never outnumber the budget.
C18_QueryErrorsAreRetried ==
    Submitted
    => /\ calls.getTransaction <= Budget
       /\ pollErrors <= i
       /\ pc = "settle_poll" => calls.getTransaction = i + 1
       /\ lastStatus = "throw"
            => IF i < Budget
               THEN pc = "settle_poll" /\ settleResult = <<>>
               ELSE /\ pc = "done"
                    /\ calls.getTransaction = Budget
                    /\ SettleFailed("settle_exact_stellar_transaction_failed",
                                    sendResult[1].hash)
       /\ (pollErrors > 0 /\ lastStatus = "SUCCESS")
            => (SettleReturned /\ settleResult[1].success)

\* A query raised, a later one answered SUCCESS, and settle succeeded.
C18_Witness ==
    /\ Submitted
    /\ pollErrors >= 1
    /\ lastStatus = "SUCCESS"
    /\ SettleReturned /\ settleResult[1].success
    /\ settleResult[1].transaction = sendResult[1].hash

\* C19: polling stops at the first final status: when the k-th query
\* (k <= budget) is the first to return SUCCESS or FAILED, getTransaction has
\* been invoked exactly k times, settle has returned success = true with the
\* hash for SUCCESS and transaction_failed with the hash for FAILED, and no
\* further query is made.
C19_PollingStopsAtFinalStatus ==
    (Submitted /\ lastStatus \in FinalStatuses)
    => /\ pc = "done"
       /\ calls.getTransaction = i + 1
       /\ calls.getTransaction <= Budget
       /\ IF lastStatus = "SUCCESS"
          THEN settleResult = <<[success |-> TRUE, errorReason |-> Undefined,
                                 transaction |-> sendResult[1].hash,
                                 network |-> payload.network,
                                 payer |-> verifyResult[1].payer]>>
          ELSE SettleFailed("settle_exact_stellar_transaction_failed",
                            sendResult[1].hash)

\* Two queries without a final status, the third answers SUCCESS.
C19_Witness ==
    /\ Submitted /\ pc = "done"
    /\ lastStatus = "SUCCESS"
    /\ pollErrors = 0
    /\ calls.getTransaction = 3
    /\ SettleReturned /\ settleResult[1].success

\* C20: if the submission returns a status other than PENDING, settle returns
\* success = false with reason transaction_submission_failed, verification's
\* payer and an empty hash, and makes no status query.
C20_RejectedSubmissionIsNotPolled ==
    (api = "settle" /\ sendResult # <<>> /\ sendResult[1].status # "PENDING")
    => (/\ pc = "done"
        /\ SettleFailed("settle_exact_stellar_transaction_submission_failed", "")
        /\ calls.getTransaction = 0)

\* The ledger asked to try again later, and settle gave up without a query.
C20_Witness ==
    /\ api = "settle" /\ pc = "done"
    /\ sendResult # <<>> /\ sendResult[1].status = "TRY_AGAIN_LATER"
    /\ SettleFailed("settle_exact_stellar_transaction_submission_failed", "")
    /\ settleResult[1].payer = ClientA
    /\ calls.getTransaction = 0

\* The signer returned and reported an error.
SigningReportedError ==
    /\ api = "settle"
    /\ signError = <<TRUE>>

\* C21: if the signer reports an error when signing the rebuilt transaction,
\* settle returns success = false with reason transaction_signing_failed,
\* verification's payer and an empty hash, and neither sendTransaction nor
\* getTransaction is invoked in that call.
C21_SigningErrorStopsSettle ==
    SigningReportedError
    => (/\ pc = "done"
        /\ SettleFailed("settle_exact_stellar_transaction_signing_failed", "")
        /\ calls.sendTransaction = 0
        /\ calls.getTransaction = 0)

\* The transaction was rebuilt, the signer reported an error, settle returned.
C21_Witness ==
    /\ SigningReportedError
    /\ rebuiltTx # <<>>
    /\ calls.signTransaction = 1
    /\ verifyResult[1].payer = ClientA
    /\ SettleFailed("settle_exact_stellar_transaction_signing_failed", "")

\* The hash settle holds: the accepted submission's, the empty string before.
HashSoFar == IF txHash = Undefined THEN "" ELSE txHash

\* C22 (as the specification states it): an exception raised by the account
\* fetch, by signing, by submission or by any later step of settle, the
\* status query included, makes settle return success = false with reason
\* unexpected_settle_error, verification's payer and the hash obtained so far.
C22_EveryExceptionIsUnexpectedSettleError ==
    (api = "settle" /\ (raised # "none" \/ lastStatus = "throw"))
    => (/\ pc = "done"
        /\ SettleFailed("unexpected_settle_error", HashSoFar))

\* C22 (amended): an exception raised by the account fetch, by signing or by
\* submission makes settle return success = false with reason
\* unexpected_settle_error, verification's payer and the empty hash, no later
\* capability being invoked; an exception raised by a status query is
\* swallowed by the polling loop and never gives unexpected_settle_error, so
\* that this reason never comes with a hash.
C22_CaughtExceptionIsUnexpectedSettleError ==
    /\ (api = "settle" /\ raised # "none")
        => (/\ pc = "done"
            /\ txHash = Undefined
            /\ SettleFailed("unexpected_settle_error", "")
            /\ raised = "getAccount" => calls.signTransaction = 0
            /\ raised \in {"getAccount", "signTransaction"} => calls.sendTransaction = 0
            /\ calls.getTransaction = 0)
    /\ (api = "settle" /\ lastStatus = "throw" /\ SettleReturned)
        => settleResult[1].errorReason # "unexpected_settle_error"
    /\ (SettleReturned /\ settleResult[1].errorReason = "unexpected_settle_error")
        => settleResult[1].transaction = ""

\* The submission raised after the account fetch and the signing went well.
C22_Witness ==
    /\ api = "settle"
    /\ raised = "sendTransaction"
    /\ calls.sendTransaction = 1
    /\ verifyResult[1].payer = ClientA
    /\ SettleFailed("unexpected_settle_error", "")

\* settle has rebuilt the client's transaction.
Rebuilt ==
    /\ api = "settle"
    /\ rebuiltTx # <<>>

\* C23: the transaction settle rebuilds, and hands to the signer and then to
\* sendTransaction, has the facilitator's account as its source, with the
\* sequence number following the one getAccount returned in this call, and
\* exactly one operation, whose function, arguments, authorization entries and
\* source are the client's operation's; no step of settle changes it later.
C23_RebuiltInvocationIsTheClients ==
    /\ (api = "settle" /\ calls.signTransaction + calls.sendTransaction > 0) => Rebuilt
    /\ Rebuilt
        => (/\ facilitatorAccount # <<>>
            /\ facilitatorAccount[1].accountId = Facilitator
            /\ rebuiltTx[1].source = Facilitator
            /\ rebuiltTx[1].sequence = facilitatorAccount[1].sequence + 1
            /\ Len(rebuiltTx[1].operations) = 1
            /\ rebuiltTx[1].operations[1].type = "invokeHostFunction"
            /\ rebuiltTx[1].operations[1].func = TheOperation.func
            /\ rebuiltTx[1].operations[1].func.args = TheArgs
            /\ rebuiltTx[1].operations[1].auth = TheOperation.auth
            /\ rebuiltTx[1].operations[1].source = TheOperation.source)

\* A transaction whose operation names another account as its source and
\* carries a source-account entry beside the payer's was rebuilt and submitted.
C23_Witness ==
    /\ Rebuilt
    /\ calls.sendTransaction = 1
    /\ TheOperation.source = ClientB
    /\ Len(TheOperation.auth) = 2
    /\ rebuiltTx[1].operations[1].source = ClientB
    /\ rebuiltTx[1].operations[1].auth = TheOperation.auth
    /\ rebuiltTx[1].sequence = 102

\* The envelope fields the specification lists as preserved.
PreservedFields(tx) ==
    [fee |-> tx.fee, timeBounds |-> tx.timeBounds,
     minAccountSequence |-> tx.minAccountSequence,
     minAccountSequenceAge |-> tx.minAccountSequenceAge,
     minAccountSequenceLedgerGap |-> tx.minAccountSequenceLedgerGap,
     memo |-> tx.memo, extraSigners |-> tx.extraSigners,
     sorobanData |-> tx.sorobanData]

\* C24 (as the specification states it): the transaction settle rebuilds has
\* the client's fee, time bounds, minimum-sequence constraints, memo, extra
\* signers and resource footprint; in particular its time bounds are the
\* client's whatever requirements.maxTimeoutSeconds is.
C24_RebuiltEnvelopeIsTheClients ==
    Rebuilt => PreservedFields(rebuiltTx[1]) = PreservedFields(DecodedTx)

\* The envelope parses and carries no Soroban data.
ParsesWithoutFootprint ==
    /\ ProtocolOk
    /\ Decodes
    /\ ~DecodedTx.sorobanData

\* C25 (as the specification states it): verify answers malformed to a payload
\* whose envelope parses but carries no resource footprint, so that every
\* payload verify accepts carries one and settle never answers malformed
\* after its own call of verify has accepted the payload.
C25_AcceptedPayloadCarriesFootprint ==
    /\ (VerifyDone /\ ParsesWithoutFootprint /\ ~RpcUrlMissing)
        => Rejected("invalid_exact_stellar_payload_malformed", Undefined)
    /\ (VerifyReturned /\ verifyResult[1].isValid) => DecodedTx.sorobanData
    /\ (api = "settle" /\ VerifyReturned /\ verifyResult[1].isValid /\ SettleReturned)
        => settleResult[1].errorReason # "invalid_exact_stellar_payload_malformed"

\* C26 (as the specification states it): every decoding failure of verify is
\* malformed: the version, scheme and network checks passed, a payload
\* without a usable transaction text, or with a text that is no envelope,
\* gets isValid = false with reason malformed and no payer, and the
\* simulation is not invoked.
C26_DecodingFailureIsMalformed ==
    (VerifyDone /\ ProtocolOk /\ ~RpcUrlMissing /\ ~Decodes)
    => (/\ Rejected("invalid_exact_stellar_payload_malformed", Undefined)
        /\ calls.simulateTransaction = 0)

\* C27: within one settle call sendTransaction is invoked at most once,
\* whatever the submission status, the poll results and the errors: settle
\* never resubmits, and of the external calls only the status query is
\* repeated.
C27_SubmitsAtMostOnce ==
    (api = "settle")
    => (/\ calls.sendTransaction <= 1
        /\ calls.simulateTransaction <= 1
        /\ calls.getAccount <= 1
        /\ calls.signTransaction <= 1
        /\ calls.getTransaction > 0 => calls.sendTransaction = 1)

\* One submission, then two status queries of which one raised, and settle
\* gave up at the end of its budget.
C27_Witness ==
    /\ Submitted /\ pc = "done"
    /\ calls.sendTransaction = 1
    /\ calls.getTransaction = 2
    /\ pollErrors = 1
    /\ SettleFailed("settle_exact_stellar_transaction_failed", sendResult[1].hash)

\* verify got as far as reading `from` out of the arguments.
FromWasDecoded ==
    /\ ProtocolOk
    /\ ~RpcUrlMissing
    /\ SingleTransfer
    /\ AssetMatches

\* C30 (as the specification states it): when an exception interrupts verify
\* after `from` has been decoded (the simulation raising, maxAmountRequired
\* being no decimal integer), the unexpected_verify_error response carries
\* payer = `from`.
C30_UnexpectedErrorKeepsPayer ==
    (/\ VerifyReturned
     /\ verifyResult[1].invalidReason = "unexpected_verify_error"
     /\ FromWasDecoded)
    => verifyResult[1].payer = DecodedFrom

\* The call's own verify accepted its payload.
CallVerified(c) == c.verifyResult # <<>> /\ c.verifyResult[1].isValid

\* What a finished call answered: success, or the reason of its failure.
CallOutcome(c) ==
    [success |-> c.settleResult[1].success, errorReason |-> c.settleResult[1].errorReason]

SamePayload == settles[1].payload = settles[2].payload

\* C28: concurrent settle calls for one payload are not deduplicated. A call
\* invokes sendTransaction exactly when its own verify has accepted the
\* payload and it has rebuilt and signed, whatever another call given the same
\* payload has done by then; the witness is the interleaving in which both
\* calls verify and both submit.
C28_SamePayloadIsNotDeduplicated ==
    \A p \in Callers :
        LET c == settles[p]
        IN  /\ c.calls.sendTransaction <= 1
            /\ c.calls.sendTransaction = 1
                <=> (/\ CallVerified(c)
                     /\ c.pc \in {"settle_send", "settle_poll", "done"})
            /\ CallVerified(c) => c.payer = c.verifyResult[1].payer

\* Both calls were given the same payload, both verified it and both
\* submitted; the ledger took the first transaction and refused the second.
C28_Witness ==
    /\ SamePayload
    /\ \A p \in Callers :
        /\ CallVerified(settles[p])
        /\ settles[p].calls.sendTransaction = 1
        /\ settles[p].pc = "done"
    /\ settles[1].settleResult[1].success
    /\ ~settles[2].settleResult[1].success

\* The poll budget of a call.
CallBudget(c) == NullishOr(c.paymentRequirements.maxTimeoutSeconds, 60)

\* What a call of settle with a valid payment can answer when no other call
\* runs: its verify's reason if the text of verify it runs rejects the
\* payload; else success when the ledger closes within its status queries, and
\* transaction_failed when it does not (always, if the budget allows no query).
AloneOutcomes(c) ==
    IF ~CallVerified(c)
    THEN {[success |-> FALSE, errorReason |-> c.verifyResult[1].invalidReason]}
    ELSE {[success |-> FALSE, errorReason |-> "settle_exact_stellar_transaction_failed"]}
         \cup IF CallBudget(c) = 0
              THEN {}
              ELSE {[success |-> TRUE, errorReason |-> Undefined]}

\* C29 (as the specification states it): concurrent settle calls of one
\* facilitator for different valid payloads are independent: under every
\* interleaving of their steps against a ledger that enforces the account's
\* sequence numbers, each call ends as it would alone, so that two valid
\* payments settled in parallel both succeed.
C29_DifferentPayloadsSettleIndependently ==
    (settles[1].payload # settles[2].payload)
    => \A p \in Callers :
        settles[p].pc = "done" => CallOutcome(settles[p]) \in AloneOutcomes(settles[p])

\* settle's own call of verify accepted a payload without Soroban data.
VerifiedWithoutFootprint ==
    /\ api = "settle"
    /\ VerifyReturned /\ verifyResult[1].isValid
    /\ ~DecodedTx.sorobanData

\* C31: if verification succeeds but the envelope carries no Soroban data,
\* settle returns success = false with reason malformed, verification's payer
\* and an empty hash, without fetching the facilitator's account, signing or
\* submitting.
C31_MissingFootprintStopsSettle ==
    VerifiedWithoutFootprint
    => (/\ pc = "done"
        /\ SettleFailed("invalid_exact_stellar_payload_malformed", "")
        /\ calls.getAccount = 0
        /\ calls.signTransaction = 0
        /\ calls.sendTransaction = 0
        /\ calls.getTransaction = 0
        /\ rebuiltTx = <<>>)

\* ClientA's accepted transfer without Soroban data, answered malformed.
C31_Witness ==
    /\ VerifiedWithoutFootprint
    /\ calls.simulateTransaction = 1
    /\ verifyResult[1].payer = ClientA
    /\ settleResult[1].payer = ClientA
    /\ SettleFailed("invalid_exact_stellar_payload_malformed", "")

\* The reasons the checks before the simulation give.
ValidatingReasons ==
    { "invalid_x402_version", "invalid_scheme", "invalid_network",
      "invalid_exact_stellar_payload_malformed",
      "invalid_exact_stellar_payload_wrong_operation",
      "invalid_exact_stellar_payload_wrong_function_name",
      "invalid_exact_stellar_payload_wrong_function_args",
      "invalid_exact_stellar_payload_wrong_asset",
      "invalid_exact_stellar_payload_wrong_recipient",
      "invalid_exact_stellar_payload_wrong_amount" }

\* C35: verify (called directly or inside settle, either text) asks the ledger
\* for a simulation at most once, and only after the version, scheme, network,
\* operation, function, asset, recipient and amount checks have all passed; a
\* payload one of those checks rejects causes no ledger call; the simulation
\* is answered before verify decides, and verify itself makes no other ledger
\* call.
C35_SimulatesOnceAfterValidation ==
    /\ calls.simulateTransaction <= 1
    /\ calls.simulateTransaction = 1
        => (ProtocolOk /\ ~RpcUrlMissing /\ TransferMatches)
    /\ (VerifyReturned /\ verifyResult[1].invalidReason \in ValidatingReasons)
        => (/\ calls.simulateTransaction = 0
            /\ simulation = <<>>
            /\ calls.getAccount = 0 /\ calls.signTransaction = 0
            /\ calls.sendTransaction = 0 /\ calls.getTransaction = 0)
    /\ (/\ VerifyReturned
        /\ \/ verifyResult[1].isValid
           \/ verifyResult[1].invalidReason \in SimulatingOrAuditingReasons)
        => (calls.simulateTransaction = 1 /\ simulation # <<>>)
    /\ pc \in {"verify_simulate", "settle_simulate"}
        => (calls.simulateTransaction = 1 /\ simulation = <<>> /\ ~VerifyReturned)
    /\ api = "verify"
        => (/\ calls.getAccount = 0 /\ calls.signTransaction = 0
            /\ calls.sendTransaction = 0 /\ calls.getTransaction = 0)

C35_Witness ==
    /\ VerifyDone
    /\ calls.simulateTransaction = 1
    /\ simulation # <<>>
    /\ VerifyReturned /\ verifyResult[1].isValid

\* An upper bound on the steps settle (or verify) still takes: one for each
\* awaited call ahead of the polling loop, and the polls left in the budget.
StepsLeft ==
    CASE pc = "idle" -> Budget + 6
      [] pc \in {"verify_simulate", "settle_simulate"} -> Budget + 5
      [] pc = "settle_getAccount" -> Budget + 4
      [] pc = "settle_sign" -> Budget + 3
      [] pc = "settle_send" -> Budget + 2
      [] pc = "settle_poll" -> Budget - i
      [] OTHER -> 0

\* Every step of a call, each awaited ledger or signer call returning or
\* raising, lowers StepsLeft, which is never negative; and a call that has not
\* finished can take a step: settle and verify terminate, and the polling loop
\* is the only loop, of at most maxTimeoutSeconds ?? 60 iterations.
SettleTerminates ==
    /\ [][StepsLeft' < StepsLeft]_vars
    /\ [](StepsLeft >= 0)
    /\ [](pc # "done" => (StepsLeft > 0 /\ ENABLED Next))
    /\ [](calls.getTransaction <= Budget)

\* C36 (as the specification states it): every settle call terminates with a
\* SettleResponse: a finished settle has polled at most maxTimeoutSeconds
\* (default 60) times and has returned a response.
C36_SettleTerminatesWithResponse ==
    (api = "settle" /\ pc = "done")
    => (/\ calls.getTransaction <= Budget
        /\ SettleReturned)

\* The payer is the transaction source and no address-credential entry of the
\* envelope names the payer: the payer authorizes through source-account
\* credentials only.
PayerOnlyBySource ==
    /\ SingleTransfer
    /\ DecodedTx.source = DecodedFrom
    /\ \A k \in AddressEntriesOf(TheOperation.auth) :
        TheOperation.auth[k].address # DecodedFrom

\* C38: a transfer whose payer authorizes only through source-account
\* credentials is never accepted by verify (either text, called directly or
\* inside settle, whatever the simulation answers); when verify comes to the
\* audit (every check and the simulation passed, the sources not refused) the
\* payer is absent from alreadySigned and the answer is
\* missing_payer_signature with payer = `from`.
C38_SourceAccountPayerIsRejected ==
    (VerifyReturned /\ PayerOnlyBySource)
    => /\ ~verifyResult[1].isValid
       /\ (/\ ProtocolOk /\ TransferMatches /\ SimulationPassed
           /\ verifyResult[1].invalidReason
                # "invalid_exact_stellar_payload_unsafe_tx_or_op_source")
          => (/\ ~includes(gatherAuthEntrySignatureStatus(
                    GatherAuthEntrySignatureStatusInput(DecodedTx, simulation, Absent))
                        .alreadySigned, DecodedFrom)
              /\ Rejected("invalid_exact_stellar_payload_missing_payer_signature",
                          DecodedFrom))

C38_Witness ==
    /\ VerifyDone
    /\ PayerOnlyBySource
    /\ TheOperation.auth = <<SourceAccountEntry>>
    /\ SimulationSucceeded
    /\ Rejected("invalid_exact_stellar_payload_missing_payer_signature", ClientA)

\* The authorization list a run of the auditor classifies: the transaction's
\* own, or the simulation's when the transaction has none and the run
\* assembles.
AuditedEntries(input) ==
    LET own == input.transaction.operations[1].auth
    IN  IF /\ input.simulationResponse # <<>>
           /\ input.simulate # <<FALSE>>
           /\ own = <<>>
        THEN input.simulationResponse[1].auth
        ELSE own

ElementsOf(list) == {list[k] : k \in 1..Len(list)}

\* The runs of the auditor that returned, with the input they had.
ReturnedRuns ==
    {k \in 1..Len(auditor.runs) : ~auditor.runs[k].result.threw}
InputOf(k) == [auditor.input EXCEPT !.transaction = auditor.runs[k].before]

\* C32: the auditor classifies every entry of the invocation's authorization
\* list: an address is in alreadySigned exactly when at least one
\* address-credential entry for it has a non-empty signature slot, and in
\* pendingSignature exactly when at least one has an empty slot; entries with
\* source-account credentials contribute to neither set.
C32_AuditorClassifiesEveryEntry ==
    \A k \in ReturnedRuns :
        LET entries == AuditedEntries(InputOf(k))
            result  == auditor.runs[k].result
        IN  /\ ElementsOf(result.alreadySigned) = SignedIn(entries)
            /\ ElementsOf(result.pendingSignature) = PendingIn(entries)
            /\ (\A j \in 1..Len(entries) :
                    entries[j].credentials = "sorobanCredentialsSourceAccount")
                => (result.alreadySigned = <<>> /\ result.pendingSignature = <<>>)

C32_Witness ==
    /\ auditor.runs # <<>>
    /\ auditor.input.simulationResponse = <<>>
    /\ ~auditor.runs[1].result.threw
    /\ auditor.runs[1].before.operations[1].auth
            = <<SourceAccountEntry, AddressEntry(ClientA, "scvVec")>>
    /\ auditor.runs[1].result.alreadySigned = <<ClientA>>
    /\ auditor.runs[1].result.pendingSignature = <<>>

NoDuplicates(list) ==
    \A j, k \in 1..Len(list) : list[j] = list[k] => j = k

\* C33: the ContractSigners the auditor returns are duplicate-free: each
\* address appears at most once in alreadySigned and at most once in
\* pendingSignature, however many entries name it.
C33_ContractSignersAreDuplicateFree ==
    \A k \in ReturnedRuns :
        /\ NoDuplicates(auditor.runs[k].result.alreadySigned)
        /\ NoDuplicates(auditor.runs[k].result.pendingSignature)

C33_Witness ==
    /\ auditor.runs # <<>>
    /\ ~auditor.runs[1].result.threw
    /\ auditor.runs[1].before.operations[1].auth
            = <<AddressEntry(ClientA, "scvVec"), AddressEntry(ClientA, "scvVec")>>
    /\ auditor.runs[1].result.alreadySigned = <<ClientA>>

ClientReturned == client.result # <<>>

\* C37: createAndSignPayment returns a payload only if the signers required
\* after the first simulation were exactly the client's own address and none
\* was required after signing and re-simulating; when the first list lacks
\* the client's address or holds more than one address it throws without
\* invoking signAuthEntries; when a signer is still required after signing it
\* throws without returning; and the payload returned carries the x402Version
\* given and the scheme and network of the requirements.
C37_ClientSignsOnlyForItself ==
    /\ ClientReturned
        => (/\ client.pc = "done" /\ client.thrown = "none"
            /\ Len(client.missingSigners) = 2
            /\ client.missingSigners[1] = <<client.signer.address>>
            /\ client.missingSigners[2] = <<>>
            /\ client.calls.signAuthEntries = 1 /\ client.calls.simulate = 1
            /\ client.result[1].x402Version = client.x402Version
            /\ client.result[1].scheme = client.paymentRequirements.scheme
            /\ client.result[1].network = client.paymentRequirements.network)
    /\ (/\ Len(client.missingSigners) >= 1
        /\ client.missingSigners[1] # <<client.signer.address>>)
        => (/\ client.pc = "done" /\ client.thrown = "Expected to sign with"
            /\ ~ClientReturned
            /\ client.calls.signAuthEntries = 0 /\ client.calls.simulate = 0)
    /\ (/\ Len(client.missingSigners) = 2
        /\ client.missingSigners[2] # <<>>)
        => (/\ client.pc = "done"
            /\ client.thrown = "unexpected signer(s) required"
            /\ ~ClientReturned)
    /\ client.calls.signAuthEntries = 1
        => (/\ Len(client.missingSigners) >= 1
            /\ client.missingSigners[1] = <<client.signer.address>>)

C37_Witness ==
    /\ ClientReturned
    /\ client.x402Version = 2
    /\ client.paymentRequirements.network = "stellar"
    /\ client.missingSigners = <<<<ClientA>>, <<>>>>
    /\ client.result[1].x402Version = 2
    /\ client.result[1].network = "stellar"

\* The call has returned transaction_failed from the end of its polling loop:
\* the budget was used up without a final status.
TimedOut(c) ==
    /\ c.pc = "done"
    /\ c.settleResult[1].errorReason = "settle_exact_stellar_transaction_failed"
    /\ c.i >= CallBudget(c)

\* The ledger holds the transaction: pending, or applied.
Outstanding(tx) ==
    \/ tx \in ledger.pending
    \/ \E r \in ledger.results : r.hash = HashOf(tx)

\* C39: a settle call that returns transaction_failed after exhausting its
\* poll budget has submitted once, has asked for the status exactly
\* maxTimeoutSeconds ?? 60 times and has called nothing else on the ledger (no
\* cancellation), returns success = false with the hash of its transaction,
\* and leaves that transaction with the ledger, pending or applied; the
\* ledger closing on its own, the transaction can be applied with success
\* after the call has returned (the witness).
C39_TimedOutSettleLeavesTransaction ==
    \A p \in Callers :
        TimedOut(settles[p])
        => LET c == settles[p]
           IN  /\ c.calls.sendTransaction = 1
               /\ c.calls.getTransaction = CallBudget(c)
               /\ c.calls.simulateTransaction = 1
               /\ c.calls.getAccount = 1
               /\ c.calls.signTransaction = 1
               /\ ~c.settleResult[1].success
               /\ c.settleResult[1].transaction = HashOf(c.rebuiltTx[1])
               /\ c.settleResult[1].transaction # ""
               /\ Outstanding(c.rebuiltTx[1])

\* Call 1 polled once, returned transaction_failed, and the ledger applied its
\* transaction afterwards, with success.
C39_Witness ==
    /\ TimedOut(settles[1])
    /\ CallBudget(settles[1]) >= 1
    /\ settles[1].calls.getTransaction = CallBudget(settles[1])
    /\ ~settles[1].settleResult[1].success
    /\ settles[2].pc = "idle"
    /\ \E r \in ledger.results :
        /\ r.hash = settles[1].settleResult[1].transaction
        /\ r.status = "SUCCESS"

====
